---- MODULE Spec2Model ----
(***************************************************************************)
(* The node/signal diagram editor of src/components/node-map.tsx (NodeMap) *)
(* and the label geometry of src/lib/utils/text-boundary.ts.               *)
(*                                                                         *)
(* One action is one browser event as the component handles it: the event  *)
(* handler, the React render it causes and the effects of that render      *)
(* (cleanups first, then bodies in declaration order).  Closures keep the  *)
(* values of the render that created them: a drag listener keeps the node  *)
(* it found at pointer-down, an effect cleanup keeps the nodes of the      *)
(* render before, a timeline keeps the nodes startAnimations iterated.     *)
(*                                                                         *)
(* Coordinates are integers.  The attributes of a connector's <line> and   *)
(* <circle> are a function (calculateConnectionPoints) of six arguments;   *)
(* the DOM map `lines` records, per connector, the argument tuple its      *)
(* attributes were last computed from.                                     *)
(***************************************************************************)
EXTENDS Integers, Sequences, FiniteSets, TLC

VARIABLES
    nodes,              \* useState nodes: the declarative model
    isLiveMode,         \* useState isLiveMode
    nodeRefsMap,        \* useRef Map: node id -> live position
    signalRefsMap,      \* useRef Map: signal id -> live position
    lines,              \* DOM: <<nodeId, signalId>> -> connector attributes
    animationsRef,      \* useRef: the list of running gsap timelines
    drags,              \* the mousemove/mouseup listener pairs on document
    pointerInside,      \* whether the pointer is over the <svg>
    now,                \* Date.now()
    gestures,           \* user gestures begun so far (bounded)
    viewportOffset,     \* useState viewportOffset
    isDraggingViewport, \* useState isDraggingViewport
    dragStart,          \* useState dragStart
    svgSize,            \* useState svgSize
    contentBounds,      \* useState contentBounds
    contextMenu,        \* useState contextMenu
    call                \* a call of a pure function: its arguments and result

vars == <<nodes, isLiveMode, nodeRefsMap, signalRefsMap, lines, animationsRef,
          drags, pointerInside, now, gestures, viewportOffset,
          isDraggingViewport, dragStart, svgSize, contentBounds, contextMenu, call>>

(***************************************************************************)
(* Bounds of the model.                                                    *)
(***************************************************************************)
MaxPointer == 1
MaxOffset == 1
MaxGestures == 2
MaxDrags == 2
MaxClock == 4
MaxSignals == 2

Pointers ==
    {p \in {[x |-> px, y |-> py] : px \in 0..MaxPointer, py \in 0..MaxPointer} :
        p.x + p.y <= MaxPointer}
\* The displacements of a tween from its start that the model samples: a
\* tween moves its element along the segment from (x, y) to (x, y) + target.
Offsets == {[x |-> k, y |-> k] : k \in -MaxOffset..MaxOffset}

(***************************************************************************)
(* The declarative model: a list of nodes, each owning a list of signals.  *)
(***************************************************************************)
EmptyMap == [i \in {} |-> 0]

Range(s) == {s[i] : i \in DOMAIN s}

Position(px, py) == [x |-> px, y |-> py]

SignalData(sid, stext, sx, sy, pid) ==
    [id |-> sid, text |-> stext, x |-> sx, y |-> sy, parentId |-> pid]

NodeData(nid, ntext, nx, ny, sigs) ==
    [id |-> nid, text |-> ntext, x |-> nx, y |-> ny, signals |-> sigs]

\* Array.prototype.find: the first element with the id, as a list of 0 or 1.
Find(list, id) ==
    LET hits == SelectSeq(list, LAMBDA e : e.id = id)
    IN  IF hits = << >> THEN << >> ELSE << Head(hits) >>

\* The value a Map holds for id after set() ran for each element of list in
\* order: the position of the last element with the id.
LastPos(list, id) ==
    LET hits == SelectSeq(list, LAMBDA e : e.id = id)
    IN  Position(hits[Len(hits)].x, hits[Len(hits)].y)

\* nodes.forEach(node => node.signals.forEach(signal => ...)): the
\* (node, signal) pairs in iteration order.
PairsOf(n) == [j \in 1..Len(n.signals) |-> [node |-> n, signal |-> n.signals[j]]]

Pairs(ns) ==
    LET F[i \in 0..Len(ns)] == IF i = 0 THEN << >> ELSE F[i - 1] \o PairsOf(ns[i])
    IN  F[Len(ns)]

AllSignals(ns) == [k \in 1..Len(Pairs(ns)) |-> Pairs(ns)[k].signal]

NodeIds(ns) == {ns[i].id : i \in DOMAIN ns}

SignalIds(ns) == {s.id : s \in Range(AllSignals(ns))}

\* The ids of the <line>/<circle> pairs a render of ns draws.
Connections(ns) == {<<p.node.id, p.signal.id>> : p \in Range(Pairs(ns))}

LastPair(ns, c) ==
    LET hits == SelectSeq(Pairs(ns), LAMBDA p : <<p.node.id, p.signal.id>> = c)
    IN  hits[Len(hits)]

(***************************************************************************)
(* Map.set, Map.delete on the registries and the DOM map.                  *)
(***************************************************************************)
MapSet(m, k, v) == [i \in DOMAIN m \cup {k} |-> IF i = k THEN v ELSE m[i]]

MapDelete(m, k) == [i \in DOMAIN m \ {k} |-> m[i]]

(***************************************************************************)
(* calculateConnectionPoints is a function of its six arguments; the model *)
(* keeps the arguments, so two connectors are equal exactly when they were *)
(* computed from the same texts and positions.                             *)
(***************************************************************************)
calculateConnectionPoints(nodeText, nodeX, nodeY, signalText, signalX, signalY) ==
    [nodeText |-> nodeText, nodeX |-> nodeX, nodeY |-> nodeY,
     signalText |-> signalText, signalX |-> signalX, signalY |-> signalY]

\* <ConnectionLine>: the connector of a (node, signal) pair of the model.
ConnectionLine(p) ==
    calculateConnectionPoints(p.node.text, p.node.x, p.node.y,
                              p.signal.text, p.signal.x, p.signal.y)

(***************************************************************************)
(* The mutable objects the effects and callbacks share, as one record:     *)
(*   n = nodeRefsMap.current, s = signalRefsMap.current,                   *)
(*   l = the connector elements of the document, a = animationsRef.current *)
(***************************************************************************)
Refs(n, s, l, a) == [n |-> n, s |-> s, l |-> l, a |-> a]

\* updateLine of a render whose nodes were ns.
updateLine(ns, nodeId, signalId, st) ==
    LET node == Find(ns, nodeId)
        signal == IF node = << >> THEN << >> ELSE Find(node[1].signals, signalId)
    IN  IF /\ <<nodeId, signalId>> \in DOMAIN st.l
           /\ nodeId \in DOMAIN st.n
           /\ signalId \in DOMAIN st.s
           /\ node # << >>
           /\ signal # << >>
        THEN [st EXCEPT !.l = MapSet(st.l, <<nodeId, signalId>>,
                 calculateConnectionPoints(node[1].text, st.n[nodeId].x, st.n[nodeId].y,
                                           signal[1].text, st.s[signalId].x, st.s[signalId].y))]
        ELSE st

\* signals.forEach(signal => updateLine(nodeId, signal.id))
RECURSIVE updateLines(_, _, _, _)
updateLines(ns, nodeId, signals, st) ==
    IF signals = << >> THEN st
    ELSE updateLines(ns, nodeId, Tail(signals), updateLine(ns, nodeId, Head(signals).id, st))

\* A stopAnimations that resets the registries but leaves the <line> and
\* <circle> attributes as the last tick wrote them.
stopAnimationsKeepsLines(ns, st) ==
    [n |-> [i \in DOMAIN st.n \cup NodeIds(ns) |->
                IF i \in NodeIds(ns) THEN LastPos(ns, i) ELSE st.n[i]],
     s |-> [i \in DOMAIN st.s \cup SignalIds(ns) |->
                IF i \in SignalIds(ns) THEN LastPos(AllSignals(ns), i) ELSE st.s[i]],
     l |-> st.l,
     a |-> << >>]

\* A stopAnimations that resets positions and connectors but neither kills
\* the timelines nor empties animationsRef.
stopAnimationsKeepsTimelines(ns, st) ==
    [n |-> [i \in DOMAIN st.n \cup NodeIds(ns) |->
                IF i \in NodeIds(ns) THEN LastPos(ns, i) ELSE st.n[i]],
     s |-> [i \in DOMAIN st.s \cup SignalIds(ns) |->
                IF i \in SignalIds(ns) THEN LastPos(AllSignals(ns), i) ELSE st.s[i]],
     l |-> [c \in DOMAIN st.l |->
                IF c \in Connections(ns) THEN ConnectionLine(LastPair(ns, c)) ELSE st.l[c]],
     a |-> st.a]

\* stopAnimations of a render whose nodes were ns.
stopAnimations(ns, st) ==
    [n |-> [i \in DOMAIN st.n \cup NodeIds(ns) |->
                IF i \in NodeIds(ns) THEN LastPos(ns, i) ELSE st.n[i]],
     s |-> [i \in DOMAIN st.s \cup SignalIds(ns) |->
                IF i \in SignalIds(ns) THEN LastPos(AllSignals(ns), i) ELSE st.s[i]],
     l |-> [c \in DOMAIN st.l |->
                IF c \in Connections(ns) THEN ConnectionLine(LastPair(ns, c)) ELSE st.l[c]],
     a |-> << >>]

\* startAnimations of a render whose nodes were ns: one master timeline whose
\* tweens (one per node, one per signal) keep ns in their onUpdate closures.
startAnimations(ns, st) ==
    LET stopped == stopAnimations(ns, st)
    IN  [stopped EXCEPT !.a = Append(stopped.a, [nodes |-> ns])]

\* A registry effect that seeds the maps without clearing them first.
reseedWithoutClear(ns, st) ==
    [st EXCEPT !.n = [i \in DOMAIN st.n \cup NodeIds(ns) |->
                        IF i \in NodeIds(ns) THEN LastPos(ns, i) ELSE st.n[i]],
               !.s = [i \in DOMAIN st.s \cup SignalIds(ns) |->
                        IF i \in SignalIds(ns) THEN LastPos(AllSignals(ns), i) ELSE st.s[i]]]

\* The registry effect: clear both maps, then seed them from the model.
reseed(ns, st) ==
    [st EXCEPT !.n = [i \in NodeIds(ns) |-> LastPos(ns, i)],
               !.s = [i \in SignalIds(ns) |-> LastPos(AllSignals(ns), i)]]

\* The animation effect's body.
animationEffect(live, ns, st) ==
    IF live THEN startAnimations(ns, st) ELSE stopAnimations(ns, st)

\* React's reconciliation of the connectors: elements are created for new
\* keys, removed for dropped keys, and an existing element's attributes are
\* written only where the rendered value differs from the previous render's.
render(old, new, st) ==
    [st EXCEPT !.l = [c \in Connections(new) |->
        IF /\ c \in DOMAIN st.l
           /\ c \in Connections(old)
           /\ ConnectionLine(LastPair(new, c)) = ConnectionLine(LastPair(old, c))
        THEN st.l[c]
        ELSE ConnectionLine(LastPair(new, c))]]

\* A commit whose registry effect never runs again after the first render.
commitWithoutReseed(old, new, nodesChanged, liveChanged, live, st) ==
    LET rendered == render(old, new, st)
        cleaned == IF nodesChanged \/ liveChanged THEN stopAnimations(old, rendered) ELSE rendered
    IN  IF nodesChanged \/ liveChanged THEN animationEffect(live, new, cleaned) ELSE cleaned

\* One commit: render, then the effects whose dependencies changed, cleanups
\* first.  The animation effect's cleanup is the stopAnimations of the
\* previous render.
commit(old, new, nodesChanged, liveChanged, live, st) ==
    LET rendered == render(old, new, st)
        cleaned == IF nodesChanged \/ liveChanged THEN stopAnimations(old, rendered) ELSE rendered
        seeded == IF nodesChanged THEN reseed(new, cleaned) ELSE cleaned
    IN  IF nodesChanged \/ liveChanged THEN animationEffect(live, new, seeded) ELSE seeded

(***************************************************************************)
(* The viewport.  viewportOffset is kept in twentieths of a pixel (the pan *)
(* damping is 19/20), contentBounds in half pixels (half a text width).    *)
(***************************************************************************)
padding == 50
nodeCharWidth == 8
nodeTextHeight == 20
signalCharWidth == 7
signalTextHeight == 16
dampingNum == 19
dampingDen == 20
distance == 100

Min(S) == CHOOSE m \in S : \A k \in S : m <= k

Max(S) == CHOOSE m \in S : \A k \in S : m >= k

BoundingBox(minX, minY, maxX, maxY) ==
    [minX |-> minX, minY |-> minY, maxX |-> maxX, maxY |-> maxY,
     width |-> maxX - minX, height |-> maxY - minY]

\* A calculateContentBounds whose empty case returns the all-zero box the
\* state hook starts with.
calculateContentBoundsZeroWhenEmpty(ns, size) ==
    IF ns = << >>
    THEN BoundingBox(0, 0, 0, 0)
    ELSE LET N == Range(ns)
             S == Range(AllSignals(ns))
             nw(n) == Len(n.text) * nodeCharWidth
             sw(g) == Len(g.text) * signalCharWidth
         IN  BoundingBox(
               Min({2 * n.x - nw(n) - 2 * padding : n \in N} \cup
                   {2 * g.x - sw(g) - 2 * padding : g \in S}),
               Min({2 * n.y - nodeTextHeight - 2 * padding : n \in N} \cup
                   {2 * g.y - signalTextHeight - 2 * padding : g \in S}),
               Max({2 * n.x + nw(n) + 2 * padding : n \in N} \cup
                   {2 * g.x + sw(g) + 2 * padding : g \in S}),
               Max({2 * n.y + nodeTextHeight + 2 * padding : n \in N} \cup
                   {2 * g.y + signalTextHeight + 2 * padding : g \in S}))

\* A calculateContentBounds whose forEach over the nodes skips their signals.
calculateContentBoundsNodesOnly(ns, size) ==
    IF ns = << >>
    THEN BoundingBox(0, 0, 2 * size.width, 2 * size.height)
    ELSE LET N == Range(ns)
             nw(n) == Len(n.text) * nodeCharWidth
         IN  BoundingBox(
               Min({2 * n.x - nw(n) - 2 * padding : n \in N}),
               Min({2 * n.y - nodeTextHeight - 2 * padding : n \in N}),
               Max({2 * n.x + nw(n) + 2 * padding : n \in N}),
               Max({2 * n.y + nodeTextHeight + 2 * padding : n \in N}))

\* calculateContentBounds of a render with nodes ns and svgSize size.
calculateContentBounds(ns, size) ==
    IF ns = << >>
    THEN BoundingBox(0, 0, 2 * size.width, 2 * size.height)
    ELSE LET N == Range(ns)
             S == Range(AllSignals(ns))
             nw(n) == Len(n.text) * nodeCharWidth
             sw(g) == Len(g.text) * signalCharWidth
         IN  BoundingBox(
               Min({2 * n.x - nw(n) - 2 * padding : n \in N} \cup
                   {2 * g.x - sw(g) - 2 * padding : g \in S}),
               Min({2 * n.y - nodeTextHeight - 2 * padding : n \in N} \cup
                   {2 * g.y - signalTextHeight - 2 * padding : g \in S}),
               Max({2 * n.x + nw(n) + 2 * padding : n \in N} \cup
                   {2 * g.x + sw(g) + 2 * padding : g \in S}),
               Max({2 * n.y + nodeTextHeight + 2 * padding : n \in N} \cup
                   {2 * g.y + signalTextHeight + 2 * padding : g \in S}))

\* fitContentToViewport of a render with nodes ns, svgSize size, contentBounds b.
fitContentToViewport(ns, size, b) ==
    IF ns = << >>
    THEN Position(0, 0)
    ELSE Position((dampingDen \div 2) * size.width - (dampingDen \div 4) * (b.minX + b.maxX),
                  (dampingDen \div 2) * size.height - (dampingDen \div 4) * (b.minY + b.maxY))

\* smoothPan(dx, dy) applied to the offset prev.
smoothPan(prev, dx, dy) == Position(prev.x + dampingNum * dx, prev.y + dampingNum * dy)

(***************************************************************************)
(* State after the first render and its effects.                           *)
(***************************************************************************)
initialNodesData ==
    << NodeData(1, "Main Node 1", 1, 2, << SignalData(1, "Signal 1", 3, 1, 1) >>),
       NodeData(2, "Main Node 2", 2, 0, << >>) >>

SvgSizes == {[width |-> 800, height |-> 600], [width |-> 400, height |-> 600]}

initialSvgSize == [width |-> 800, height |-> 600]

ClosedMenu == [show |-> FALSE]

NoCall == [fn |-> "none"]

Cur == Refs(nodeRefsMap, signalRefsMap, lines, animationsRef)

\* The component after its first render and the effects of that render.
Mounted ==
    LET st == commit(<< >>, initialNodesData, TRUE, TRUE, FALSE,
                     Refs(EmptyMap, EmptyMap, EmptyMap, << >>))
    IN  /\ nodes = initialNodesData
        /\ isLiveMode = FALSE
        /\ viewportOffset = Position(0, 0)
        /\ isDraggingViewport = FALSE
        /\ dragStart = Position(0, 0)
        /\ svgSize = initialSvgSize
        /\ contentBounds = calculateContentBounds(initialNodesData, [width |-> 0, height |-> 0])
        /\ contextMenu = ClosedMenu
        /\ nodeRefsMap = st.n
        /\ signalRefsMap = st.s
        /\ lines = st.l
        /\ animationsRef = st.a
        /\ drags = << >>
        /\ pointerInside = TRUE
        /\ now = 3
        /\ gestures = 0

Init ==
    /\ Mounted
    /\ call = NoCall

\* A component without the effect that resets the offset on entering live
\* mode.
RenderedWithoutReset(newNodes, nodesChanged, newLive, newOffset, offsetSet, st) ==
    LET liveChanged == newLive # isLiveMode
        c == commit(nodes, newNodes, nodesChanged, liveChanged, newLive, st)
    IN  /\ nodes' = newNodes
        /\ isLiveMode' = newLive
        /\ nodeRefsMap' = c.n
        /\ signalRefsMap' = c.s
        /\ lines' = c.l
        /\ animationsRef' = c.a
        /\ viewportOffset' = newOffset
        /\ contentBounds' = IF nodesChanged \/ offsetSet
                            THEN calculateContentBounds(newNodes, svgSize)
                            ELSE contentBounds

\* The state after a handler left the shared objects as st and set the state
\* hooks as given: the commit and its effects.  The live-mode effect resets
\* the offset; the bounds effect runs when nodes or viewportOffset were set.
Rendered(newNodes, nodesChanged, newLive, newOffset, offsetSet, st) ==
    LET liveChanged == newLive # isLiveMode
        c == commit(nodes, newNodes, nodesChanged, liveChanged, newLive, st)
        reset == liveChanged /\ newLive
    IN  /\ nodes' = newNodes
        /\ isLiveMode' = newLive
        /\ nodeRefsMap' = c.n
        /\ signalRefsMap' = c.s
        /\ lines' = c.l
        /\ animationsRef' = c.a
        /\ viewportOffset' = IF reset THEN Position(0, 0) ELSE newOffset
        /\ contentBounds' = IF nodesChanged \/ offsetSet \/ reset
                            THEN calculateContentBounds(newNodes, svgSize)
                            ELSE contentBounds

(***************************************************************************)
(* Pointer events.                                                         *)
(***************************************************************************)
\* The elements a render of ns puts under the pointer: handleDragStart's
\* arguments for each <text> of a node and each <g> of a signal.
Elements(ns) ==
    {[type |-> "node", id |-> n.id, parentId |-> 0] : n \in Range(ns)} \cup
    {[type |-> "signal", id |-> p.signal.id, parentId |-> p.node.id] : p \in Range(Pairs(ns))}

\* A lookup that finds a signal by its id under any node, whatever parentId
\* the handler was given.
DragElementAnyParent(ns, e) ==
    IF e.type = "node" THEN Find(ns, e.id) ELSE Find(AllSignals(ns), e.id)

\* handleDragStart's lookup of the element in the nodes of its render.
DragElement(ns, e) ==
    IF e.type = "node"
    THEN Find(ns, e.id)
    ELSE LET parentNode == Find(ns, e.parentId)
         IN  IF parentNode = << >> THEN << >> ELSE Find(parentNode[1].signals, e.id)

\* The listener pair handleDragStart registers on document: what the
\* closures handleMouseMove/handleMouseUp captured.  Of the nodes of its
\* render a closure reads ids, texts and signal lists, never positions.
Captured(ns) ==
    [i \in DOMAIN ns |->
        [id |-> ns[i].id, text |-> ns[i].text,
         signals |-> [j \in DOMAIN ns[i].signals |->
                        [id |-> ns[i].signals[j].id, text |-> ns[i].signals[j].text]]]]

Listener(e, p, element, ns) ==
    [type |-> e.type, id |-> e.id, parentId |-> e.parentId,
     startX |-> p.x, startY |-> p.y,
     initialX |-> element.x, initialY |-> element.y, nodes |-> Captured(ns)]

\* handleDragStart(e, id, type, parentId) of the current render, for a
\* mousedown at p (propagation to the svg is stopped; the open context menu
\* sees a mousedown outside itself and closes).
handleDragStart(p, e) ==
    /\ contextMenu' = ClosedMenu
    /\ IF isLiveMode \/ DragElement(nodes, e) = << >>
       THEN UNCHANGED <<drags, gestures>>
       ELSE /\ gestures < MaxGestures
            /\ Len(drags) < MaxDrags
            /\ drags' = Append(drags, Listener(e, p, DragElement(nodes, e)[1], nodes))
            /\ gestures' = gestures + 1
    /\ UNCHANGED <<call, nodes, isLiveMode, nodeRefsMap, signalRefsMap, lines, animationsRef,
                   pointerInside, now, viewportOffset, isDraggingViewport, dragStart,
                   svgSize, contentBounds>>

\* mousedown on a node or a signal of the current render.
DragStart(p, e) ==
    /\ pointerInside
    /\ e \in Elements(nodes)
    /\ handleDragStart(p, e)

\* mousedown on the background of the svg: handleViewportDragStart, bound
\* only outside live mode.
ViewportDragStart(p) ==
    /\ pointerInside
    /\ contextMenu' = ClosedMenu
    /\ IF isLiveMode \/ isDraggingViewport
       THEN UNCHANGED <<isDraggingViewport, dragStart, gestures>>
       ELSE /\ gestures < MaxGestures
            /\ isDraggingViewport' = TRUE
            /\ dragStart' = p
            /\ gestures' = gestures + 1
    /\ UNCHANGED <<call, nodes, isLiveMode, nodeRefsMap, signalRefsMap, lines, animationsRef,
                   drags, pointerInside, now, viewportOffset, svgSize, contentBounds>>

\* A handleMouseMove that adds the pointer's displacement to the position the
\* element has now, not to the one it had at pointer-down.
MovedNodesAccumulating(d, p, prev) ==
    LET dx == p.x - d.startX
        dy == p.y - d.startY
    IN  IF d.type = "node"
        THEN [i \in DOMAIN prev |->
                IF prev[i].id = d.id
                THEN [prev[i] EXCEPT !.x = @ + dx, !.y = @ + dy] ELSE prev[i]]
        ELSE [i \in DOMAIN prev |->
                IF prev[i].id = d.parentId
                THEN [prev[i] EXCEPT !.signals = [j \in DOMAIN prev[i].signals |->
                        IF prev[i].signals[j].id = d.id
                        THEN [prev[i].signals[j] EXCEPT !.x = @ + dx, !.y = @ + dy]
                        ELSE prev[i].signals[j]]]
                ELSE prev[i]]

\* handleMouseMove of listener d for a pointer at p: the model after its
\* setNodes updater ran on prev.
MovedNodes(d, p, prev) ==
    LET newX == d.initialX + (p.x - d.startX)
        newY == d.initialY + (p.y - d.startY)
    IN  IF d.type = "node"
        THEN [i \in DOMAIN prev |->
                IF prev[i].id = d.id THEN [prev[i] EXCEPT !.x = newX, !.y = newY] ELSE prev[i]]
        ELSE [i \in DOMAIN prev |->
                IF prev[i].id = d.parentId
                THEN [prev[i] EXCEPT !.signals = [j \in DOMAIN prev[i].signals |->
                        IF prev[i].signals[j].id = d.id
                        THEN [prev[i].signals[j] EXCEPT !.x = newX, !.y = newY]
                        ELSE prev[i].signals[j]]]
                ELSE prev[i]]

\* A handleMouseMove that recomputes the connectors first and writes the
\* registry entry afterwards.
MovedRefsLinesFirst(d, p, st) ==
    LET newX == d.initialX + (p.x - d.startX)
        newY == d.initialY + (p.y - d.startY)
    IN  IF d.type = "node"
        THEN LET node == Find(d.nodes, d.id)
                 updated == IF node = << >> THEN st
                            ELSE updateLines(d.nodes, d.id, node[1].signals, st)
             IN  [updated EXCEPT !.n = MapSet(updated.n, d.id, Position(newX, newY))]
        ELSE LET updated == updateLine(d.nodes, d.parentId, d.id, st)
             IN  [updated EXCEPT !.s = MapSet(updated.s, d.id, Position(newX, newY))]

\* handleMouseMove of listener d: its writes to the registry and the
\* connectors, through the updateLine of the render that registered it.
MovedRefs(d, p, st) ==
    LET newX == d.initialX + (p.x - d.startX)
        newY == d.initialY + (p.y - d.startY)
    IN  IF d.type = "node"
        THEN LET node == Find(d.nodes, d.id)
                 set == [st EXCEPT !.n = MapSet(st.n, d.id, Position(newX, newY))]
             IN  IF node = << >> THEN set
                 ELSE updateLines(d.nodes, d.id, node[1].signals, set)
        ELSE updateLine(d.nodes, d.parentId, d.id,
                        [st EXCEPT !.s = MapSet(st.s, d.id, Position(newX, newY))])

\* document dispatches mousemove to its listeners in registration order.
RECURSIVE MoveAll(_, _, _)
MoveAll(ds, p, acc) ==
    IF ds = << >> THEN acc
    ELSE MoveAll(Tail(ds), p,
                 [nodes |-> MovedNodes(Head(ds), p, acc.nodes),
                  refs |-> MovedRefs(Head(ds), p, acc.refs)])

\* A mousemove at p: handleViewportDragMove if the pointer is over the svg
\* outside live mode, then every handleMouseMove on document, then the
\* commit of the state they set.
MouseMove(p) ==
    LET pans == pointerInside /\ ~isLiveMode /\ isDraggingViewport
        moved == MoveAll(drags, p, [nodes |-> nodes, refs |-> Cur])
    IN  /\ pans \/ drags # << >>
        /\ dragStart' = IF pans THEN p ELSE dragStart
        /\ Rendered(moved.nodes, drags # << >>, isLiveMode,
                    IF pans THEN smoothPan(viewportOffset, p.x - dragStart.x, p.y - dragStart.y)
                            ELSE viewportOffset,
                    pans, moved.refs)
        /\ UNCHANGED <<call, drags, pointerInside, now, gestures, isDraggingViewport, svgSize,
                       contextMenu>>

\* mouseup: every handleMouseUp on document removes its listener pair; the
\* svg's handleViewportDragEnd runs if the pointer is over it outside live
\* mode.
MouseUp ==
    /\ drags' = << >>
    /\ isDraggingViewport' = IF pointerInside /\ ~isLiveMode THEN FALSE ELSE isDraggingViewport
    /\ UNCHANGED <<call, nodes, isLiveMode, nodeRefsMap, signalRefsMap, lines, animationsRef,
                   pointerInside, now, gestures, viewportOffset, dragStart, svgSize,
                   contentBounds, contextMenu>>

\* The pointer leaves the svg: onMouseLeave is handleViewportDragEnd outside
\* live mode; the listeners on document stay.
MouseLeave ==
    /\ pointerInside
    /\ gestures < MaxGestures
    /\ gestures' = gestures + 1
    /\ pointerInside' = FALSE
    /\ isDraggingViewport' = IF ~isLiveMode THEN FALSE ELSE isDraggingViewport
    /\ UNCHANGED <<call, nodes, isLiveMode, nodeRefsMap, signalRefsMap, lines, animationsRef,
                   drags, now, viewportOffset, dragStart, svgSize,
                   contentBounds, contextMenu>>

MouseEnter ==
    /\ ~pointerInside
    /\ pointerInside' = TRUE
    /\ UNCHANGED <<call, nodes, isLiveMode, nodeRefsMap, signalRefsMap, lines, animationsRef,
                   drags, now, gestures, viewportOffset, isDraggingViewport, dragStart,
                   svgSize, contentBounds, contextMenu>>

(***************************************************************************)
(* Live mode and the animation scheduler.                                  *)
(***************************************************************************)
\* The Edit Mode / Live Mode buttons: setIsLiveMode(b).
SetLiveMode(b) ==
    /\ b # isLiveMode => gestures < MaxGestures
    /\ gestures' = IF b # isLiveMode THEN gestures + 1 ELSE gestures
    /\ Rendered(nodes, FALSE, b, viewportOffset, FALSE, Cur)
    /\ UNCHANGED <<call, drags, pointerInside, now, isDraggingViewport, dragStart,
                   svgSize, contextMenu>>

\* matrix.e || initial: a transform component of 0 reads as the initial value.
OrInitial(current, initial) == IF current # 0 THEN current ELSE initial

\* An onUpdate that also stores the interpolated position in the declarative
\* model (a setNodes on every frame).
NodeTickSetsNodes(t, n, o) ==
    /\ n.id \in NodeIds(nodes)
    /\ LET current == Position(OrInitial(n.x + o.x, n.x), OrInitial(n.y + o.y, n.y))
           set == [Cur EXCEPT !.n = MapSet(nodeRefsMap, n.id, current)]
           st == updateLines(t.nodes, n.id, n.signals, set)
       IN  /\ nodeRefsMap' = st.n
           /\ signalRefsMap' = st.s
           /\ lines' = st.l
           /\ nodes' = [i \in DOMAIN nodes |->
                           IF nodes[i].id = n.id
                           THEN [nodes[i] EXCEPT !.x = current.x, !.y = current.y]
                           ELSE nodes[i]]
    /\ UNCHANGED <<call, isLiveMode, animationsRef, drags, pointerInside, now, gestures,
                   viewportOffset, isDraggingViewport, dragStart, svgSize, contentBounds,
                   contextMenu>>

\* onUpdate of the tween of node n of timeline t, with the element at the
\* interpolated position n + o.
NodeTick(t, n, o) ==
    /\ n.id \in NodeIds(nodes)
    /\ LET set == [Cur EXCEPT !.n = MapSet(nodeRefsMap, n.id,
                        Position(OrInitial(n.x + o.x, n.x), OrInitial(n.y + o.y, n.y)))]
           st == updateLines(t.nodes, n.id, n.signals, set)
       IN  /\ nodeRefsMap' = st.n
           /\ signalRefsMap' = st.s
           /\ lines' = st.l
    /\ UNCHANGED <<call, nodes, isLiveMode, animationsRef, drags, pointerInside, now, gestures,
                   viewportOffset, isDraggingViewport, dragStart, svgSize, contentBounds,
                   contextMenu>>

\* onUpdate of the tween of signal q.signal of node q.node of timeline t.
SignalTick(t, q, o) ==
    /\ q.signal.id \in SignalIds(nodes)
    /\ LET set == [Cur EXCEPT !.s = MapSet(signalRefsMap, q.signal.id,
                        Position(OrInitial(q.signal.x + o.x, q.signal.x),
                                 OrInitial(q.signal.y + o.y, q.signal.y)))]
           st == updateLine(t.nodes, q.node.id, q.signal.id, set)
       IN  /\ nodeRefsMap' = st.n
           /\ signalRefsMap' = st.s
           /\ lines' = st.l
    /\ UNCHANGED <<call, nodes, isLiveMode, animationsRef, drags, pointerInside, now, gestures,
                   viewportOffset, isDraggingViewport, dragStart, svgSize, contentBounds,
                   contextMenu>>

\* One frame of one tween of a timeline that has not been killed.
AnimationTick ==
    \E i \in DOMAIN animationsRef : \E o \in Offsets :
        \/ \E n \in Range(animationsRef[i].nodes) : NodeTick(animationsRef[i], n, o)
        \/ \E q \in Range(Pairs(animationsRef[i].nodes)) : SignalTick(animationsRef[i], q, o)

(***************************************************************************)
(* Model edits: the context menu and the JSON import.                      *)
(***************************************************************************)
Menu(type, id, parentId, x, y) ==
    [show |-> TRUE, type |-> type, id |-> id, parentId |-> parentId, x |-> x, y |-> y]

MenuUnchanged ==
    UNCHANGED <<call, nodes, isLiveMode, nodeRefsMap, signalRefsMap, lines, animationsRef, drags,
                pointerInside, now, viewportOffset, isDraggingViewport, dragStart,
                svgSize, contentBounds>>

\* contextmenu on the canvas at the content position p, or on an element.
\* The fields of a hidden menu are never read, so a hidden menu is ClosedMenu.
handleContextMenu(m) ==
    /\ pointerInside
    /\ IF isLiveMode
       THEN UNCHANGED <<contextMenu, gestures>>
       ELSE /\ gestures < MaxGestures
            /\ contextMenu' = m
            /\ gestures' = gestures + 1
    /\ MenuUnchanged

OpenContextMenu ==
    \/ \E p \in Pointers : handleContextMenu(Menu("canvas", 0, 0, p.x, p.y))
    \/ \E n \in Range(nodes) : handleContextMenu(Menu("node", n.id, 0, n.x, n.y))
    \/ \E q \in Range(Pairs(nodes)) :
          handleContextMenu(Menu("signal", q.signal.id, q.node.id, q.signal.x, q.signal.y))

\* A click on the svg, or a mousedown outside the menu.
closeContextMenu ==
    /\ contextMenu.show
    /\ contextMenu' = ClosedMenu
    /\ UNCHANGED gestures
    /\ MenuUnchanged

EditUnchanged ==
    UNCHANGED <<call, drags, pointerInside, gestures, isDraggingViewport, dragStart, svgSize>>

\* onAddNode: addNode(contextMenu.x, contextMenu.y), closeContextMenu().
\* The new id is `node-${Date.now()}`: now is the reading the call gets, and
\* the next call of Date.now() reads the same millisecond or a later one.
addNode ==
    /\ contextMenu.show /\ contextMenu.type = "canvas"
    /\ now < MaxClock
    /\ LET newId == now
       IN  Rendered(Append(nodes, NodeData(newId, "New Node", contextMenu.x, contextMenu.y, << >>)),
                    TRUE, isLiveMode, viewportOffset, FALSE,
                    [Cur EXCEPT !.n = MapSet(nodeRefsMap, newId,
                                             Position(contextMenu.x, contextMenu.y))])
    /\ now' \in {now, now + 1}
    /\ contextMenu' = ClosedMenu
    /\ EditUnchanged

\* cos(angle) * distance, sin(angle) * distance for
\* angle = PI / (existingSignals + 2) * (existingSignals + 1), rounded.
signalOffset(existingSignals) ==
    CASE existingSignals = 0 -> Position(0, distance)
      [] existingSignals = 1 -> Position(-(distance \div 2), 87)
      [] existingSignals = 2 -> Position(-71, 71)
      [] existingSignals = 3 -> Position(-81, 59)
      [] OTHER -> Position(-87, distance \div 2)

\* onAddSignal: addSignal(contextMenu.id), closeContextMenu().
\* The new id is `signal-${Date.now()}`.
addSignal ==
    /\ contextMenu.show /\ contextMenu.type = "node"
    /\ LET parent == Find(nodes, contextMenu.id)
       IN  IF parent = << >>
           THEN UNCHANGED <<nodes, isLiveMode, nodeRefsMap, signalRefsMap, lines,
                            animationsRef, viewportOffset, contentBounds, now>>
           ELSE LET newId == now
                    off == signalOffset(Len(parent[1].signals))
                    newX == parent[1].x + off.x
                    newY == parent[1].y + off.y
                    new == SignalData(newId, "New Signal", newX, newY, contextMenu.id)
                IN  /\ now < MaxClock
                    /\ Len(parent[1].signals) < MaxSignals
                    /\ Rendered([i \in DOMAIN nodes |->
                                    IF nodes[i].id = contextMenu.id
                                    THEN [nodes[i] EXCEPT !.signals = Append(@, new)]
                                    ELSE nodes[i]],
                                TRUE, isLiveMode, viewportOffset, FALSE,
                                [Cur EXCEPT !.s = MapSet(signalRefsMap, newId, Position(newX, newY))])
                    /\ now' \in {now, now + 1}
    /\ contextMenu' = ClosedMenu
    /\ EditUnchanged

\* onDelete on a node: deleteNode(contextMenu.id), closeContextMenu().
deleteNode ==
    /\ contextMenu.show /\ contextMenu.type = "node"
    /\ Rendered(SelectSeq(nodes, LAMBDA n : n.id # contextMenu.id),
                TRUE, isLiveMode, viewportOffset, FALSE,
                [Cur EXCEPT !.n = MapDelete(nodeRefsMap, contextMenu.id)])
    /\ contextMenu' = ClosedMenu
    /\ UNCHANGED now
    /\ EditUnchanged

\* onDelete on a signal: deleteSignal(contextMenu.id, contextMenu.parentId).
deleteSignal ==
    /\ contextMenu.show /\ contextMenu.type = "signal"
    /\ Rendered([i \in DOMAIN nodes |->
                    IF nodes[i].id = contextMenu.parentId
                    THEN [nodes[i] EXCEPT !.signals =
                             SelectSeq(@, LAMBDA g : g.id # contextMenu.id)]
                    ELSE nodes[i]],
                TRUE, isLiveMode, viewportOffset, FALSE,
                [Cur EXCEPT !.s = MapDelete(signalRefsMap, contextMenu.id)])
    /\ contextMenu' = ClosedMenu
    /\ UNCHANGED now
    /\ EditUnchanged

\* The files offered to the import: arrays of nodes.
ImportFiles ==
    { << >>,
      << NodeData(1, "Main Node 1", 2, 3, << SignalData(1, "Signal 1", 0, 1, 1),
                                             SignalData(2, "Signal 2", 4, 2, 1) >>) >> }

\* reader.onload of importFromJson: setNodes, the registry rebuilt by hand,
\* fitContentToViewport of the render that owns the handler.
importFromJson(importedNodes) ==
    /\ gestures < MaxGestures
    /\ gestures' = gestures + 1
    /\ Rendered(importedNodes, TRUE, isLiveMode,
                fitContentToViewport(nodes, svgSize, contentBounds), TRUE,
                reseed(importedNodes, Cur))
    /\ UNCHANGED <<call, drags, pointerInside, now, isDraggingViewport, dragStart,
                   svgSize, contextMenu>>

\* updateSvgSize: the ResizeObserver or the window's resize listener.
Resize(size) ==
    /\ size # svgSize
    /\ gestures < MaxGestures
    /\ gestures' = gestures + 1
    /\ svgSize' = size
    /\ UNCHANGED <<call, nodes, isLiveMode, nodeRefsMap, signalRefsMap, lines, animationsRef,
                   drags, pointerInside, now, viewportOffset, isDraggingViewport,
                   dragStart, contentBounds, contextMenu>>

(***************************************************************************)
(* findNearestBoundaryPoint, in exact rational arithmetic: tan(angle) is   *)
(* dy / dx and 1 / tan(angle) is dx / dy.  A coordinate is a fraction      *)
(* [n, d] with d > 0.                                                      *)
(***************************************************************************)
MaxOrigin == 1
MaxSide == 2
MaxTarget == 3

Rat(n, d) == IF d < 0 THEN [n |-> -n, d |-> -d] ELSE [n |-> n, d |-> d]

RatLeq(a, b) == a.n * b.d <= b.n * a.d

RatLess(a, b) == a.n * b.d < b.n * a.d

RatPoint(x, y) == [x |-> x, y |-> y]

TextBoundary(x, y, width, height) == [x |-> x, y |-> y, width |-> width, height |-> height]

\* Intersections whose left-side point adds the slope term where the code
\* subtracts it: the left point is mirrored about the centre's height.
IntersectionsMirrored(boundary, point) ==
    LET cx2 == 2 * boundary.x + boundary.width
        cy2 == 2 * boundary.y + boundary.height
        dx2 == 2 * point.x - cx2
        dy2 == 2 * point.y - cy2
        right == IF dx2 > 0
                 THEN << RatPoint(Rat(boundary.x + boundary.width, 1),
                                  Rat(cy2 * dx2 + boundary.width * dy2, 2 * dx2)) >>
                 ELSE << >>
        left == IF dx2 < 0
                THEN << RatPoint(Rat(boundary.x, 1),
                                 Rat(cy2 * dx2 + boundary.width * dy2, 2 * dx2)) >>
                ELSE << >>
        bottom == IF dy2 > 0
                  THEN << RatPoint(Rat(cx2 * dy2 + boundary.height * dx2, 2 * dy2),
                                   Rat(boundary.y + boundary.height, 1)) >>
                  ELSE << >>
        top == IF dy2 < 0
               THEN << RatPoint(Rat(cx2 * dy2 - boundary.height * dx2, 2 * dy2),
                                Rat(boundary.y, 1)) >>
               ELSE << >>
    IN  right \o left \o bottom \o top

\* The intersections pushed for the four sides, in the order of the code.
Intersections(boundary, point) ==
    LET cx2 == 2 * boundary.x + boundary.width
        cy2 == 2 * boundary.y + boundary.height
        dx2 == 2 * point.x - cx2
        dy2 == 2 * point.y - cy2
        right == IF dx2 > 0
                 THEN << RatPoint(Rat(boundary.x + boundary.width, 1),
                                  Rat(cy2 * dx2 + boundary.width * dy2, 2 * dx2)) >>
                 ELSE << >>
        left == IF dx2 < 0
                THEN << RatPoint(Rat(boundary.x, 1),
                                 Rat(cy2 * dx2 - boundary.width * dy2, 2 * dx2)) >>
                ELSE << >>
        bottom == IF dy2 > 0
                  THEN << RatPoint(Rat(cx2 * dy2 + boundary.height * dx2, 2 * dy2),
                                   Rat(boundary.y + boundary.height, 1)) >>
                  ELSE << >>
        top == IF dy2 < 0
               THEN << RatPoint(Rat(cx2 * dy2 - boundary.height * dx2, 2 * dy2),
                                Rat(boundary.y, 1)) >>
               ELSE << >>
    IN  right \o left \o bottom \o top

\* intersection.x >= boundary.x && ... && intersection.y <= boundary.y + height
OnBoundary(boundary, c) ==
    /\ RatLeq(Rat(boundary.x, 1), c.x)
    /\ RatLeq(c.x, Rat(boundary.x + boundary.width, 1))
    /\ RatLeq(Rat(boundary.y, 1), c.y)
    /\ RatLeq(c.y, Rat(boundary.y + boundary.height, 1))

\* The square of the distance from point to c (sqrt is monotone).
Distance2(point, c) ==
    LET ex == point.x * c.x.d - c.x.n
        ey == point.y * c.y.d - c.y.n
    IN  Rat(ex * ex * c.y.d * c.y.d + ey * ey * c.x.d * c.x.d, c.x.d * c.x.d * c.y.d * c.y.d)

\* A forEach that takes the closest intersection without checking that it
\* lies on the boundary.
RECURSIVE NearestUnfiltered(_, _, _, _)
NearestUnfiltered(boundary, point, cands, acc) ==
    IF cands = << >> THEN acc.nearestPoint
    ELSE LET c == Head(cands)
             better == ~acc.found \/ RatLess(Distance2(point, c), acc.minDistance)
         IN  NearestUnfiltered(boundary, point, Tail(cands),
                     IF better
                     THEN [nearestPoint |-> c, found |-> TRUE, minDistance |-> Distance2(point, c)]
                     ELSE acc)

\* intersections.forEach: acc is [nearestPoint, found, minDistance], found
\* FALSE while minDistance is Number.MAX_VALUE.
RECURSIVE Nearest(_, _, _, _)
Nearest(boundary, point, cands, acc) ==
    IF cands = << >> THEN acc.nearestPoint
    ELSE LET c == Head(cands)
             better == /\ OnBoundary(boundary, c)
                       /\ ~acc.found \/ RatLess(Distance2(point, c), acc.minDistance)
         IN  Nearest(boundary, point, Tail(cands),
                     IF better
                     THEN [nearestPoint |-> c, found |-> TRUE, minDistance |-> Distance2(point, c)]
                     ELSE acc)

findNearestBoundaryPoint(boundary, point) ==
    Nearest(boundary, point, Intersections(boundary, point),
            [nearestPoint |-> RatPoint(Rat(2 * boundary.x + boundary.width, 2),
                                       Rat(2 * boundary.y + boundary.height, 2)),
             found |-> FALSE, minDistance |-> Rat(0, 1)])

Boundaries ==
    {TextBoundary(x, y, w, h) : x \in -MaxOrigin..MaxOrigin, y \in -MaxOrigin..MaxOrigin,
                                w \in 1..MaxSide, h \in 1..MaxSide}

Targets == {Position(x, y) : x \in -MaxTarget..MaxTarget, y \in -MaxTarget..MaxTarget}

\* The state of Init with a call of findNearestBoundaryPoint about to be made.
InitGeometry ==
    /\ \E b \in Boundaries : \E t \in Targets :
          call = [fn |-> "findNearestBoundaryPoint", boundary |-> b, point |-> t,
                  returned |-> FALSE]
    /\ nodes = initialNodesData
    /\ isLiveMode = FALSE
    /\ viewportOffset = Position(0, 0)
    /\ isDraggingViewport = FALSE
    /\ dragStart = Position(0, 0)
    /\ svgSize = initialSvgSize
    /\ contentBounds = calculateContentBounds(initialNodesData, [width |-> 0, height |-> 0])
    /\ contextMenu = ClosedMenu
    /\ nodeRefsMap = EmptyMap
    /\ signalRefsMap = EmptyMap
    /\ lines = EmptyMap
    /\ animationsRef = << >>
    /\ drags = << >>
    /\ pointerInside = TRUE
    /\ now = 3
    /\ gestures = 0

CallFindNearestBoundaryPoint ==
    /\ call.fn = "findNearestBoundaryPoint"
    /\ ~call.returned
    /\ call' = [call EXCEPT !.returned = TRUE] @@
               [result |-> findNearestBoundaryPoint(call.boundary, call.point)]
    /\ UNCHANGED <<nodes, isLiveMode, nodeRefsMap, signalRefsMap, lines, animationsRef,
                   drags, pointerInside, now, gestures, viewportOffset, isDraggingViewport,
                   dragStart, svgSize, contentBounds, contextMenu>>

NextGeometry == CallFindNearestBoundaryPoint

SpecGeometry == InitGeometry /\ [][NextGeometry]_vars

(***************************************************************************)
(* calculateContentBounds as a function of the node list and the svg size  *)
(* of the render that calls it.                                            *)
(***************************************************************************)
MaxCoord == 1
MaxSize == 1
CoordStep == 30

Coords == {CoordStep * k : k \in -MaxCoord..MaxCoord}

Sizes == {[width |-> 400 * w, height |-> 300 * h] : w, h \in 0..MaxSize}

\* Node lists: none, one node, one node with a signal, two nodes of which the
\* first has a signal; labels of length 0 and of the lengths of the initial
\* data.
ContentLists ==
    LET Texts == {"", "Main Node 1"}
        P == {Position(x, y) : x, y \in Coords}
        D == {Position(k, -k) : k \in Coords}
    IN  {<< >>}
        \cup {<< NodeData(1, t, p.x, p.y, << >>) >> : t \in Texts, p \in P}
        \cup {<< NodeData(1, t, p.x, p.y, << SignalData(1, "Signal 1", q.x, q.y, 1) >>) >> :
                 t \in Texts, p \in P, q \in P}
        \cup {<< NodeData(1, t, p.x, p.y, << SignalData(1, "Signal 1", q.x, q.y, 1) >>),
                 NodeData(2, "Main Node 2", r.x, r.y, << >>) >> :
                 t \in Texts, p \in P, q \in P, r \in D}

\* The component before its first render: no registry, no connector, no
\* listener.
Unmounted ==
    /\ nodes = initialNodesData
    /\ isLiveMode = FALSE
    /\ viewportOffset = Position(0, 0)
    /\ isDraggingViewport = FALSE
    /\ dragStart = Position(0, 0)
    /\ svgSize = initialSvgSize
    /\ contentBounds = calculateContentBounds(initialNodesData, [width |-> 0, height |-> 0])
    /\ contextMenu = ClosedMenu
    /\ nodeRefsMap = EmptyMap
    /\ signalRefsMap = EmptyMap
    /\ lines = EmptyMap
    /\ animationsRef = << >>
    /\ drags = << >>
    /\ pointerInside = TRUE
    /\ now = 3
    /\ gestures = 0

PureUnchanged ==
    UNCHANGED <<nodes, isLiveMode, nodeRefsMap, signalRefsMap, lines, animationsRef,
                drags, pointerInside, now, gestures, viewportOffset, isDraggingViewport,
                dragStart, svgSize, contentBounds, contextMenu>>

InitBounds ==
    /\ \E ns \in ContentLists : \E size \in Sizes :
          call = [fn |-> "calculateContentBounds", nodes |-> ns, svgSize |-> size,
                  returned |-> FALSE]
    /\ Unmounted

CallCalculateContentBounds ==
    /\ call.fn = "calculateContentBounds"
    /\ ~call.returned
    /\ call' = [call EXCEPT !.returned = TRUE] @@
               [result |-> calculateContentBounds(call.nodes, call.svgSize)]
    /\ PureUnchanged

NextBounds == CallCalculateContentBounds

SpecBounds == InitBounds /\ [][NextBounds]_vars

(***************************************************************************)
(* Text measurement (text-boundary.ts).  A text is a sequence of           *)
(* characters.  estimateTextWidth is text.length * fontSize * 0.6; the     *)
(* model compares 6 * length * fontSize with 10 * maxWidth.                *)
(***************************************************************************)
MaxText == 5

Alphabet == {"a", "b", " "}

Texts == UNION {[1..k -> Alphabet] : k \in 0..MaxText}

FontSizes == {12, 16}

MaxWidths == {0, 15, 30, 150}

\* estimateTextWidth(text, fontSize) < maxWidth
estimateTextWidthUnder(text, fontSize, maxWidth) == 6 * Len(text) * fontSize < 10 * maxWidth

\* text.split(' '): the maximal runs without a space, empty runs included.
Split(text) ==
    LET F[i \in 0..Len(text)] ==
            IF i = 0 THEN << << >> >>
            ELSE LET words == F[i - 1]
                 IN  IF text[i] = " "
                     THEN Append(words, << >>)
                     ELSE [words EXCEPT ![Len(words)] = Append(@, text[i])]
    IN  F[Len(text)]

\* A breakTextIntoLines that takes a character to be as wide as the font
\* size, without the factor 0.6.
breakTextIntoLinesFullWidth(text, fontSize, maxWidth) ==
    LET words == Split(text)
        F[i \in 1..Len(words)] ==
            IF i = 1 THEN [lines |-> << >>, currentLine |-> words[1]]
            ELSE LET loop == F[i - 1]
                     joined == loop.currentLine \o << " " >> \o words[i]
                 IN  IF Len(joined) * fontSize < maxWidth
                     THEN [loop EXCEPT !.currentLine = joined]
                     ELSE [lines |-> Append(loop.lines, loop.currentLine),
                           currentLine |-> words[i]]
        last == F[Len(words)]
    IN  Append(last.lines, last.currentLine)

\* A breakTextIntoLines that cuts a line made of one word that is too wide
\* after its first character.
breakTextIntoLinesSplitsWords(text, fontSize, maxWidth) ==
    LET words == Split(text)
        F[i \in 1..Len(words)] ==
            IF i = 1 THEN [lines |-> << >>, currentLine |-> words[1]]
            ELSE LET loop == F[i - 1]
                     joined == loop.currentLine \o << " " >> \o words[i]
                 IN  IF estimateTextWidthUnder(joined, fontSize, maxWidth)
                     THEN [loop EXCEPT !.currentLine = joined]
                     ELSE [lines |-> Append(loop.lines, loop.currentLine),
                           currentLine |-> words[i]]
        last == F[Len(words)]
        whole == Append(last.lines, last.currentLine)
        cut(l) == IF Len(Split(l)) = 1 /\ Len(l) >= 2
                     /\ ~estimateTextWidthUnder(l, fontSize, maxWidth)
                  THEN << SubSeq(l, 1, 1), SubSeq(l, 2, Len(l)) >>
                  ELSE << l >>
        G[k \in 0..Len(whole)] == IF k = 0 THEN << >> ELSE G[k - 1] \o cut(whole[k])
    IN  G[Len(whole)]

\* A breakTextIntoLines that skips the empty words that two spaces in a row,
\* or a space at either end, produce.
breakTextIntoLinesSkipsEmptyWords(text, fontSize, maxWidth) ==
    LET words == Split(text)
        F[i \in 1..Len(words)] ==
            IF i = 1 THEN [lines |-> << >>, currentLine |-> words[1]]
            ELSE LET loop == F[i - 1]
                     joined == loop.currentLine \o << " " >> \o words[i]
                 IN  IF words[i] = << >>
                     THEN loop
                     ELSE IF estimateTextWidthUnder(joined, fontSize, maxWidth)
                     THEN [loop EXCEPT !.currentLine = joined]
                     ELSE [lines |-> Append(loop.lines, loop.currentLine),
                           currentLine |-> words[i]]
        last == F[Len(words)]
    IN  Append(last.lines, last.currentLine)

\* breakTextIntoLines: the greedy wrap.  F[i] is the state of the loop after
\* word i: the lines pushed so far and currentLine.
breakTextIntoLines(text, fontSize, maxWidth) ==
    LET words == Split(text)
        F[i \in 1..Len(words)] ==
            IF i = 1 THEN [lines |-> << >>, currentLine |-> words[1]]
            ELSE LET loop == F[i - 1]
                     joined == loop.currentLine \o << " " >> \o words[i]
                 IN  IF estimateTextWidthUnder(joined, fontSize, maxWidth)
                     THEN [loop EXCEPT !.currentLine = joined]
                     ELSE [lines |-> Append(loop.lines, loop.currentLine),
                           currentLine |-> words[i]]
        last == F[Len(words)]
    IN  Append(last.lines, last.currentLine)

(***************************************************************************)
(* Boundaries of labels.  Lengths are in twentieths of a pixel, so that     *)
(* the line height fontSize * 1.2 and the halves of widths and heights are  *)
(* integers: a coordinate of p pixels is 20 * p.  context.measureText is    *)
(* the browser's: the model takes a font whose every character advances by  *)
(* half the font size.  context2d tells whether canvas.getContext('2d')     *)
(* gave a context.  An absent maxWidth is 0, an absent padding is << >>.    *)
(***************************************************************************)
PaddingConfig(top, right, bottom, left) ==
    [top |-> 20 * top, right |-> 20 * right, bottom |-> 20 * bottom, left |-> 20 * left]

defaultPadding ==
    [singleLine |-> PaddingConfig(15, 18, 10, 15),
     twoLines |-> PaddingConfig(8, 15, 25, 15),
     threeOrMore |-> PaddingConfig(1, 15, 24, 15)]

TextOptions(fontSize, alignment, verticalAlignment, maxWidth) ==
    [fontSize |-> fontSize, alignment |-> alignment,
     verticalAlignment |-> verticalAlignment, maxWidth |-> maxWidth]

\* context.measureText(line).width for the font fontSize px sans-serif.
measureText(line, fontSize) == Len(line) * fontSize * 10

calculateTextDimensions(text, options, context2d) ==
    IF ~context2d
    THEN [width |-> 0, height |-> 0, lineCount |-> 1]
    ELSE LET ls == IF options.maxWidth # 0
                   THEN breakTextIntoLines(text, options.fontSize, options.maxWidth)
                   ELSE << text >>
             lineHeight == options.fontSize * 24
         IN  [width |-> Max({measureText(ls[k], options.fontSize) : k \in DOMAIN ls}),
              height |-> Len(ls) * lineHeight,
              lineCount |-> Len(ls)]

\* A calculatePadding that has no profile of its own for three or more lines.
calculatePaddingTwoOrMore(dimensions, customPadding) ==
    LET pad == IF customPadding # << >> THEN customPadding[1] ELSE defaultPadding
    IN  IF dimensions.lineCount = 1 THEN pad.singleLine ELSE pad.twoLines

calculatePadding(dimensions, customPadding) ==
    LET pad == IF customPadding # << >> THEN customPadding[1] ELSE defaultPadding
    IN  IF dimensions.lineCount = 1 THEN pad.singleLine
        ELSE IF dimensions.lineCount = 2 THEN pad.twoLines
        ELSE pad.threeOrMore

calculateTextBoundary(text, x, y, options, boundaryOptions, context2d) ==
    LET dimensions == calculateTextDimensions(text, options, context2d)
        pad == calculatePadding(dimensions, boundaryOptions.padding)
        xPos == CASE options.alignment = "center" -> 20 * x - dimensions.width \div 2
                  [] options.alignment = "right" -> 20 * x - dimensions.width
                  [] OTHER -> 20 * x
        yPos == CASE options.verticalAlignment = "middle" -> 20 * y - dimensions.height \div 2
                  [] options.verticalAlignment = "bottom" -> 20 * y - dimensions.height
                  [] OTHER -> 20 * y
    IN  TextBoundary(xPos - pad.left, yPos - pad.top,
                     dimensions.width + pad.left + pad.right,
                     dimensions.height + pad.top + pad.bottom)

nodeOptions == TextOptions(16, "center", "middle", 0)

signalOptions == TextOptions(12, "center", "middle", 150)

\* The point findNearestBoundaryPoint(boundary, point) returns, kept as the
\* application itself: squaring the distances of a label's boundary, in
\* twentieths of a pixel, exceeds the integers TLC computes with.  The
\* function is evaluated, in exact arithmetic, under SpecGeometry.
NearestBoundaryPoint(boundary, point) ==
    [fn |-> "findNearestBoundaryPoint", boundary |-> boundary, point |-> point]

\* A calculateConnectionPoints that aims both endpoints at the signal's
\* anchor.
ConnectionPointsTowardSignal(nodeText, nodeX, nodeY, signalText, signalX, signalY,
                             pad, context2d) ==
    LET boundaryOptions == [maxWidth |-> signalOptions.maxWidth, padding |-> pad]
        nodeBoundary == calculateTextBoundary(nodeText, nodeX, nodeY, nodeOptions,
                                              boundaryOptions, context2d)
        signalBoundary == calculateTextBoundary(signalText, signalX, signalY, signalOptions,
                                                boundaryOptions, context2d)
    IN  [start |-> NearestBoundaryPoint(nodeBoundary, Position(20 * signalX, 20 * signalY)),
         end |-> NearestBoundaryPoint(signalBoundary, Position(20 * signalX, 20 * signalY)),
         signalLines |-> breakTextIntoLines(signalText, signalOptions.fontSize,
                                            signalOptions.maxWidth)]

\* The value calculateConnectionPoints returns: start, end and the signal's
\* lines.
ConnectionPoints(nodeText, nodeX, nodeY, signalText, signalX, signalY, pad, context2d) ==
    LET boundaryOptions == [maxWidth |-> signalOptions.maxWidth, padding |-> pad]
        nodeBoundary == calculateTextBoundary(nodeText, nodeX, nodeY, nodeOptions,
                                              boundaryOptions, context2d)
        signalBoundary == calculateTextBoundary(signalText, signalX, signalY, signalOptions,
                                                boundaryOptions, context2d)
    IN  [start |-> NearestBoundaryPoint(nodeBoundary, Position(20 * signalX, 20 * signalY)),
         end |-> NearestBoundaryPoint(signalBoundary, Position(20 * nodeX, 20 * nodeY)),
         signalLines |-> breakTextIntoLines(signalText, signalOptions.fontSize,
                                            signalOptions.maxWidth)]

\* k words of n letters each, separated by single spaces.
Sentence(k, n) ==
    LET F[i \in 1..k] == IF i = 1 THEN [j \in 1..n |-> "a"]
                         ELSE F[i - 1] \o << " " >> \o [j \in 1..n |-> "a"]
    IN  F[k]

\* The arguments of the calls of calculateConnectionPoints: labels of one,
\* two and three lines, and one word too wide for a line.
NodeTexts == {<< >>, Sentence(2, 5)}

SignalTexts == {Sentence(1, 8), Sentence(2, 12), Sentence(3, 12), Sentence(1, 25)}

NodeAnchors == {Position(0, 0), Position(40, 10)}

SignalAnchors == {Position(-100, 0), Position(0, 80), Position(60, 60), Position(0, 0)}

\* The arguments of the calls of calculateTextBoundary.
BoundaryTexts == {t \in Texts : \A i \in DOMAIN t : t[i] # "b"}

Alignments == {"left", "center", "right"}

VerticalAlignments == {"top", "middle", "bottom"}

Anchors == {Position(0, 0), Position(3, -7)}

CustomPadding ==
    [singleLine |-> PaddingConfig(1, 2, 3, 4),
     twoLines |-> PaddingConfig(5, 6, 7, 8),
     threeOrMore |-> PaddingConfig(9, 10, 11, 12)]

Paddings == {<< >>, << CustomPadding >>}

InitText ==
    /\ \/ \E text \in Texts : \E fontSize \in FontSizes : \E maxWidth \in MaxWidths :
             call = [fn |-> "breakTextIntoLines", text |-> text, fontSize |-> fontSize,
                     maxWidth |-> maxWidth, returned |-> FALSE]
       \/ \E text \in BoundaryTexts : \E p \in Anchors : \E fontSize \in FontSizes :
          \E al \in Alignments : \E val \in VerticalAlignments :
          \E maxWidth \in {0, 15, 150} : \E pad \in Paddings : \E context2d \in BOOLEAN :
             call = [fn |-> "calculateTextBoundary", text |-> text, x |-> p.x, y |-> p.y,
                     options |-> TextOptions(fontSize, al, val, maxWidth),
                     boundaryOptions |-> [maxWidth |-> maxWidth, padding |-> pad],
                     context2d |-> context2d, returned |-> FALSE]
       \/ \E nodeText \in NodeTexts : \E n \in NodeAnchors :
          \E signalText \in SignalTexts : \E g \in SignalAnchors :
          \E pad \in Paddings : \E context2d \in BOOLEAN :
             call = [fn |-> "calculateConnectionPoints",
                     nodeText |-> nodeText, nodeX |-> n.x, nodeY |-> n.y,
                     signalText |-> signalText, signalX |-> g.x, signalY |-> g.y,
                     customPadding |-> pad, context2d |-> context2d, returned |-> FALSE]
    /\ Unmounted

CallBreakTextIntoLines ==
    /\ call.fn = "breakTextIntoLines"
    /\ ~call.returned
    /\ call' = [call EXCEPT !.returned = TRUE] @@
               [result |-> breakTextIntoLines(call.text, call.fontSize, call.maxWidth)]
    /\ PureUnchanged

CallCalculateTextBoundary ==
    /\ call.fn = "calculateTextBoundary"
    /\ ~call.returned
    /\ call' = [call EXCEPT !.returned = TRUE] @@
               [result |-> calculateTextBoundary(call.text, call.x, call.y, call.options,
                                                 call.boundaryOptions, call.context2d)]
    /\ PureUnchanged

CallCalculateConnectionPoints ==
    /\ call.fn = "calculateConnectionPoints"
    /\ ~call.returned
    /\ call' = [call EXCEPT !.returned = TRUE] @@
               [result |-> ConnectionPoints(call.nodeText, call.nodeX, call.nodeY,
                                            call.signalText, call.signalX, call.signalY,
                                            call.customPadding, call.context2d)]
    /\ PureUnchanged

NextText ==
    \/ CallBreakTextIntoLines
    \/ CallCalculateTextBoundary
    \/ CallCalculateConnectionPoints

SpecText == InitText /\ [][NextText]_vars

(***************************************************************************)
(* calculateConnectionPoints called while the component runs: drags, live  *)
(* mode and animation ticks change the model, the registries and the       *)
(* timelines between the calls.  The first call is made by the first       *)
(* render, in edit mode; call keeps it (its arguments, its result and the  *)
(* mode it was made in) next to the latest call.                           *)
(***************************************************************************)
\* The arguments of a call: one node text and position, and a signal at g.
ArgumentsToward(g) ==
    [nodeText |-> Sentence(2, 5), nodeX |-> 0, nodeY |-> 0,
     signalText |-> Sentence(2, 12), signalX |-> g.x, signalY |-> g.y,
     customPadding |-> << >>]

\* The connector the first render draws first.
FirstArguments == ArgumentsToward(Position(60, 60))

ConnectionArguments == {FirstArguments, ArgumentsToward(Position(0, 80))}

\* A call that takes the node's position from the registry when the registry
\* has an entry for node 1, and not from its arguments.
ConnectionPointsFromRegistry(a, context2d) ==
    IF 1 \in DOMAIN nodeRefsMap
    THEN ConnectionPoints(a.nodeText, nodeRefsMap[1].x, nodeRefsMap[1].y,
                          a.signalText, a.signalX, a.signalY, a.customPadding, context2d)
    ELSE ConnectionPoints(a.nodeText, a.nodeX, a.nodeY,
                          a.signalText, a.signalX, a.signalY, a.customPadding, context2d)

\* calculateConnectionPoints applied to the arguments a.
ConnectionPointsFor(a, context2d) ==
    ConnectionPoints(a.nodeText, a.nodeX, a.nodeY,
                     a.signalText, a.signalX, a.signalY, a.customPadding, context2d)

\* The first render has run and its first ConnectionLine has made the first
\* call; a canvas context is available or not.
InitConnection ==
    /\ Mounted
    /\ \E context2d \in BOOLEAN :
          call = [fn |-> "calculateConnectionPoints", context2d |-> context2d,
                      returned |-> TRUE,
                      first |-> [arguments |-> FirstArguments, result |-> ConnectionPointsFor(FirstArguments, context2d),
                                 isLiveMode |-> FALSE],
                      between |-> FALSE,
                      arguments |-> FirstArguments,
                      result |-> ConnectionPointsFor(FirstArguments, context2d)]

\* A later call, with the arguments a.  between tells whether a call with
\* arguments other than those of the first call has been made.
CallCalculateConnectionPointsDuring(a) ==
    /\ call.fn = "calculateConnectionPoints"
    /\ call' = [call EXCEPT !.between = call.between \/ a # call.first.arguments,
                            !.arguments = a,
                            !.result = ConnectionPointsFor(a, call.context2d)]
    /\ PureUnchanged

NextConnection ==
    \/ \E p \in Pointers : \E e \in Elements(nodes) : DragStart(p, e)
    \/ \E p \in Pointers : MouseMove(p)
    \/ MouseUp
    \/ \E b \in BOOLEAN : SetLiveMode(b)
    \/ AnimationTick
    \/ \E a \in ConnectionArguments : CallCalculateConnectionPointsDuring(a)

SpecConnection == InitConnection /\ [][NextConnection]_vars

Next ==
    \/ \E p \in Pointers : \E e \in Elements(nodes) : DragStart(p, e)
    \/ \E p \in Pointers : ViewportDragStart(p)
    \/ \E p \in Pointers : MouseMove(p)
    \/ MouseUp
    \/ MouseLeave
    \/ MouseEnter
    \/ \E b \in BOOLEAN : SetLiveMode(b)
    \/ AnimationTick
    \/ OpenContextMenu
    \/ closeContextMenu
    \/ addNode
    \/ addSignal
    \/ deleteNode
    \/ deleteSignal
    \/ \E f \in ImportFiles : importFromJson(f)
    \/ \E size \in SvgSizes : Resize(size)

Spec == Init /\ [][Next]_vars

(***************************************************************************)
(* The component after two additions at one clock reading.                 *)
(***************************************************************************)
\* addSignal's new nodes: the signal newId appended to the parent parentId.
SignalAdded(ns, parentId, newId) ==
    LET parent == Find(ns, parentId)[1]
        off == signalOffset(Len(parent.signals))
        new == SignalData(newId, "New Signal", parent.x + off.x, parent.y + off.y, parentId)
    IN  [i \in DOMAIN ns |->
            IF ns[i].id = parentId THEN [ns[i] EXCEPT !.signals = Append(@, new)] ELSE ns[i]]

\* The shared objects after addSignal(parentId) on the nodes ns with the
\* shared objects st, Date.now() reading newId.
AfterAddSignal(ns, st, parentId, newId) ==
    LET newNodes == SignalAdded(ns, parentId, newId)
        new == newNodes[CHOOSE i \in DOMAIN ns : ns[i].id = parentId].signals
        last == new[Len(new)]
    IN  commit(ns, newNodes, TRUE, FALSE, FALSE,
               [st EXCEPT !.s = MapSet(st.s, newId, Position(last.x, last.y))])

\* Add Signal on the first initial node and then on the second one, both in
\* the millisecond the clock shows at mount, and then either nothing or the
\* Live Mode button; no other input since the mount.  The horizon leaves room
\* for one more gesture.
InitIds ==
    \E live \in BOOLEAN :
        LET readNow == 3
            m == commit(<< >>, initialNodesData, TRUE, TRUE, FALSE,
                        Refs(EmptyMap, EmptyMap, EmptyMap, << >>))
            ns1 == SignalAdded(initialNodesData, 1, readNow)
            st1 == AfterAddSignal(initialNodesData, m, 1, readNow)
            ns2 == SignalAdded(ns1, 2, readNow)
            st2 == AfterAddSignal(ns1, st1, 2, readNow)
            st3 == IF live THEN commit(ns2, ns2, FALSE, TRUE, TRUE, st2) ELSE st2
        IN  /\ nodes = ns2
            /\ isLiveMode = live
            /\ viewportOffset = Position(0, 0)
            /\ isDraggingViewport = FALSE
            /\ dragStart = Position(0, 0)
            /\ svgSize = initialSvgSize
            /\ contentBounds = calculateContentBounds(ns2, initialSvgSize)
            /\ contextMenu = ClosedMenu
            /\ nodeRefsMap = st3.n
            /\ signalRefsMap = st3.s
            /\ lines = st3.l
            /\ animationsRef = st3.a
            /\ drags = << >>
            /\ pointerInside = TRUE
            /\ now = readNow
            /\ gestures = MaxGestures - 1
            /\ call = NoCall

SpecIds == InitIds /\ [][Next]_vars

(***************************************************************************)
(* Connector recomputation on its own: updateLine of node-map.tsx and the  *)
(* loop in the node onUpdate of node-map/canvas.tsx, applied to registries *)
(* that may lack an entry (Map.get returns undefined) or hold a 0.         *)
(***************************************************************************)
MaxEntry == 1

\* The model the callbacks closed over: one node with one signal.
lineNodes == << NodeData(1, "Main Node 1", 2, 3, << SignalData(1, "Signal 1", 4, 5, 1) >>) >>

\* A registry: no entry for id 1, or an entry at one of the sampled positions.
Registries ==
    {EmptyMap} \cup {MapSet(EmptyMap, 1, Position(px, py)) : px, py \in -MaxEntry..MaxEntry}

\* The connector elements of the document: line-1-1 and dot-1-1 exist (with
\* the attributes the render gave them) or they do not.
LineElements == {EmptyMap, MapSet(EmptyMap, <<1, 1>>, ConnectionLine(Pairs(lineNodes)[1]))}

\* The ids updateLine is called with: 9 is in no model.
LineIds == {1, 9}

\* signalRefsMap.current.get(id)?.x || declared
EntryOr(m, id, declared) ==
    IF id \in DOMAIN m
    THEN Position(OrInitial(m[id].x, declared.x), OrInitial(m[id].y, declared.y))
    ELSE Position(declared.x, declared.y)

\* NodeMapSimple's node onUpdate with the element at current: the registry
\* write, then the loop over node.signals that recomputes each connector.
RECURSIVE simpleUpdateLines(_, _, _, _)
simpleUpdateLines(node, current, signals, st) ==
    IF signals = << >> THEN st
    ELSE LET signal == Head(signals)
             c == <<node.id, signal.id>>
             at == EntryOr(st.s, signal.id, signal)
             next == IF c \in DOMAIN st.l
                     THEN [st EXCEPT !.l = MapSet(st.l, c,
                              calculateConnectionPoints(node.text, current.x, current.y,
                                                        signal.text, at.x, at.y))]
                     ELSE st
         IN  simpleUpdateLines(node, current, Tail(signals), next)

simpleNodeOnUpdate(node, matrix, st) ==
    LET current == Position(OrInitial(matrix.x, node.x), OrInitial(matrix.y, node.y))
    IN  simpleUpdateLines(node, current, node.signals,
                          [st EXCEPT !.n = MapSet(st.n, node.id, current)])

InitLine ==
    /\ \E n \in Registries : \E s \in Registries : \E l \in LineElements :
          \/ \E nodeId \in LineIds : \E signalId \in LineIds :
                call = [fn |-> "updateLine", nodes |-> lineNodes, nodeId |-> nodeId,
                        signalId |-> signalId, st |-> Refs(n, s, l, << >>),
                        returned |-> FALSE]
          \/ \E matrix \in {Position(px, py) : px, py \in -MaxEntry..MaxEntry} :
                call = [fn |-> "onUpdate", nodes |-> lineNodes, nodeId |-> 1, signalId |-> 1,
                        matrix |-> matrix, st |-> Refs(n, s, l, << >>), returned |-> FALSE]
    /\ Unmounted

CallUpdateLine ==
    /\ call.fn = "updateLine"
    /\ ~call.returned
    /\ call' = [call EXCEPT !.returned = TRUE] @@
               [result |-> updateLine(call.nodes, call.nodeId, call.signalId, call.st)]
    /\ PureUnchanged

CallSimpleNodeOnUpdate ==
    /\ call.fn = "onUpdate"
    /\ ~call.returned
    /\ call' = [call EXCEPT !.returned = TRUE] @@
               [result |-> simpleNodeOnUpdate(Find(call.nodes, call.nodeId)[1], call.matrix,
                                              call.st)]
    /\ PureUnchanged

NextLine ==
    \/ CallUpdateLine
    \/ CallSimpleNodeOnUpdate

SpecLine == InitLine /\ [][NextLine]_vars

(***************************************************************************)
(* The component with operations that name an element no model holds:      *)
(* handleDragStart with such ids, and updateLine called on a document and  *)
(* registries that still hold elements and entries for them.               *)
(***************************************************************************)
\* The arguments of a handleDragStart that names a missing element: a signal
\* under a parent no model holds, a signal its parent does not own, a node
\* no model holds.
MissingElements ==
    {[type |-> "signal", id |-> 1, parentId |-> 9],
     [type |-> "signal", id |-> 9, parentId |-> 1],
     [type |-> "node", id |-> 9, parentId |-> 0]}

MissingDragStart(p, e) ==
    /\ pointerInside
    /\ handleDragStart(p, e)

\* Registries and connector elements that hold the ids 1 and 9, away from
\* every declarative position.
staleRefs ==
    Refs([i \in LineIds |-> Position(7, 7)], [i \in LineIds |-> Position(8, 8)],
         [c \in LineIds \X LineIds |-> calculateConnectionPoints("", 0, 0, "", 0, 0)], << >>)

\* updateLine(nodeId, signalId) of the current render on staleRefs.
CallUpdateLineOn(nodeId, signalId) ==
    /\ call = NoCall
    /\ call' = [fn |-> "updateLine", nodeId |-> nodeId,
                signalId |-> signalId, st |-> staleRefs, returned |-> TRUE,
                result |-> updateLine(nodes, nodeId, signalId, staleRefs)]
    /\ PureUnchanged

NextMissing ==
    \/ Next
    \/ \E p \in Pointers : \E e \in MissingElements : MissingDragStart(p, e)
    \/ \E nodeId \in LineIds : \E signalId \in LineIds : CallUpdateLineOn(nodeId, signalId)

SpecMissing == Init /\ [][NextMissing]_vars

(***************************************************************************)
(* Properties.                                                             *)
(***************************************************************************)
\* The declarative position of the element a listener drags, as a list of
\* 0 or 1 (the element may have been deleted or replaced since).
Dragged(ns, d) ==
    LET found == DragElement(ns, [type |-> d.type, id |-> d.id, parentId |-> d.parentId])
    IN  IF found = << >> THEN << >> ELSE << Position(found[1].x, found[1].y) >>

\* The registry entry of the element a listener drags, as a list of 0 or 1.
DraggedEntry(n, s, d) ==
    IF d.type = "node"
    THEN IF d.id \in DOMAIN n THEN << n[d.id] >> ELSE << >>
    ELSE IF d.id \in DOMAIN s THEN << s[d.id] >> ELSE << >>

\* Listener k is the last one registered for its element: its write is the
\* one a move leaves behind.
LastFor(k) ==
    \A j \in DOMAIN drags :
        j > k => ~(drags[j].type = drags[k].type /\ drags[j].id = drags[k].id)

\* The registry holds exactly the ids of the model, and every node and every
\* signal finds its own declarative position under its id.
RegistryIsDeclarative(ns, n, s) ==
    /\ DOMAIN n = NodeIds(ns)
    /\ DOMAIN s = SignalIds(ns)
    /\ \A e \in Range(ns) : n[e.id] = Position(e.x, e.y)
    /\ \A g \in Range(AllSignals(ns)) : s[g.id] = Position(g.x, g.y)

\* C1: after each pointer-move to (px, py) of a drag started at pointer
\* (sx, sy) on an element at (x0, y0), the element's registry entry and its
\* declarative position both equal (x0 + px - sx, y0 + py - sy).
C1_DragFormula ==
    [][\A p \in Pointers : MouseMove(p) =>
          \A k \in DOMAIN drags :
              (LastFor(k) /\ Dragged(nodes, drags[k]) # << >>) =>
                  LET d == drags[k]
                      newPos == Position(d.initialX + p.x - d.startX,
                                         d.initialY + p.y - d.startY)
                  IN  /\ Dragged(nodes', d) = << newPos >>
                      /\ DraggedEntry(nodeRefsMap', signalRefsMap', d) = << newPos >>]_vars

\* A drag is held and has carried its element away from where it started.
C1_Witness ==
    \E k \in DOMAIN drags :
        /\ Dragged(nodes, drags[k]) # << >>
        /\ Dragged(nodes, drags[k]) # << Position(drags[k].initialX, drags[k].initialY) >>
        /\ DraggedEntry(nodeRefsMap, signalRefsMap, drags[k]) = Dragged(nodes, drags[k])

\* C2: after the reseed that follows a change of the model (add node, add
\* signal, delete node, delete signal, import), the registries hold exactly
\* the ids of the model and every entry equals the declarative (x, y).
C2_ReseedMatchesModel ==
    [][(\/ addNode
        \/ addSignal /\ Find(nodes, contextMenu.id) # << >>
        \/ deleteNode
        \/ deleteSignal
        \/ \E f \in ImportFiles : importFromJson(f))
       => RegistryIsDeclarative(nodes', nodeRefsMap', signalRefsMap')]_vars

\* A node was deleted and a signal was added, and the registries follow.
C2_Witness ==
    /\ Len(nodes) = 1
    /\ \E g \in Range(AllSignals(nodes)) : g.text = "New Signal" /\ g.id \in DOMAIN signalRefsMap
    /\ DOMAIN nodeRefsMap = NodeIds(nodes)

\* The nodes and signals no listener on document is dragging.
Undragged(kind, id) == \A k \in DOMAIN drags : ~(drags[k].type = kind /\ drags[k].id = id)

\* C3: a drag pointer-move changes only the dragged element: the registry
\* entry and the declarative position of every other node and signal are
\* unchanged, the signals of a dragged node included.
C3_OnlyDraggedMoves ==
    [][\A p \in Pointers : MouseMove(p) =>
          /\ \A i \in NodeIds(nodes) : Undragged("node", i) =>
                /\ i \in NodeIds(nodes') /\ LastPos(nodes', i) = LastPos(nodes, i)
                /\ i \in DOMAIN nodeRefsMap => (i \in DOMAIN nodeRefsMap'
                                                /\ nodeRefsMap'[i] = nodeRefsMap[i])
          /\ \A i \in SignalIds(nodes) : Undragged("signal", i) =>
                /\ i \in SignalIds(nodes')
                /\ LastPos(AllSignals(nodes'), i) = LastPos(AllSignals(nodes), i)
                /\ i \in DOMAIN signalRefsMap => (i \in DOMAIN signalRefsMap'
                                                  /\ signalRefsMap'[i] = signalRefsMap[i])]_vars

\* The connectors are the ones computed from the declarative positions.
LinesAreDeclarative(ns, l) ==
    /\ DOMAIN l = Connections(ns)
    /\ \A c \in Connections(ns) : l[c] = ConnectionLine(LastPair(ns, c))

\* C4: after live mode is exited no animation is running, every registry
\* entry equals the declarative (x, y) and every connector is the one
\* computed from the declarative positions.
C4_ExitRestores ==
    [][(isLiveMode /\ ~isLiveMode') =>
          /\ animationsRef' = << >>
          /\ RegistryIsDeclarative(nodes', nodeRefsMap', signalRefsMap')
          /\ LinesAreDeclarative(nodes', lines')]_vars

\* Live mode is on, the animations have carried a node and a signal away from
\* their declarative positions, a connector with them, and the Edit Mode
\* button can still be pressed.
C4_Witness ==
    /\ isLiveMode
    /\ gestures < MaxGestures
    /\ animationsRef # << >>
    /\ \E i \in NodeIds(nodes) : nodeRefsMap[i] # LastPos(nodes, i)
    /\ \E i \in SignalIds(nodes) : signalRefsMap[i] # LastPos(AllSignals(nodes), i)
    /\ \E c \in Connections(nodes) : lines[c] # ConnectionLine(LastPair(nodes, c))

\* C5: no drag pointer-move writes a registry entry or a declarative
\* position while live mode is active.
C5_NoDragWriteInLiveMode ==
    [][\A p \in Pointers : (isLiveMode /\ MouseMove(p)) =>
          /\ nodes' = nodes
          /\ nodeRefsMap' = nodeRefsMap
          /\ signalRefsMap' = signalRefsMap]_vars

\* The running motions whose onUpdate writes the registry entry of node i,
\* and of signal i: one per tween of each timeline.
NodeMotions(i) ==
    {m \in UNION {{<<t, k>> : k \in DOMAIN animationsRef[t].nodes} : t \in DOMAIN animationsRef} :
        animationsRef[m[1]].nodes[m[2]].id = i}

SignalMotions(i) ==
    {m \in UNION {{<<t, k>> : k \in DOMAIN AllSignals(animationsRef[t].nodes)} :
                    t \in DOMAIN animationsRef} :
        AllSignals(animationsRef[m[1]].nodes)[m[2]].id = i}

AnimatedIds(kind) ==
    UNION {IF kind = "node" THEN NodeIds(animationsRef[t].nodes)
                            ELSE SignalIds(animationsRef[t].nodes) : t \in DOMAIN animationsRef}

\* C6: while live mode is active there is exactly one running motion per
\* node and per signal of the current model, and while it is inactive there
\* is none.
C6_OneMotionPerElement ==
    IF isLiveMode
    THEN /\ \A i \in NodeIds(nodes) : Cardinality(NodeMotions(i)) = 1
         /\ \A i \in SignalIds(nodes) : Cardinality(SignalMotions(i)) = 1
         /\ AnimatedIds("node") = NodeIds(nodes)
         /\ AnimatedIds("signal") = SignalIds(nodes)
    ELSE animationsRef = << >>

\* Live mode is on after the model changed in live mode: a node or a signal
\* added through the menu is animated.
C6_Witness ==
    /\ isLiveMode
    /\ \E n \in Range(nodes) : n.text = "New Node" /\ Cardinality(NodeMotions(n.id)) = 1

\* C7: in no reachable state does a registry hold an entry for a node that
\* is not in the model, or for a signal whose owning node is not.
C7_NoDanglingEntries ==
    /\ DOMAIN nodeRefsMap \subseteq NodeIds(nodes)
    /\ DOMAIN signalRefsMap \subseteq SignalIds(nodes)

\* Node 1 of the initial model was deleted with its signal; node 2 remains.
C7_Witness ==
    /\ NodeIds(nodes) = {2}
    /\ nodes[1].text = "Main Node 2"
    /\ DOMAIN nodeRefsMap = {2}
    /\ DOMAIN signalRefsMap = {}

\* C8: whenever live mode is entered the viewport offset is reset to (0, 0).
C8_EnterResetsOffset ==
    [][(~isLiveMode /\ isLiveMode') => viewportOffset' = Position(0, 0)]_vars

\* The viewport was panned or centered away from the origin in edit mode and
\* the Live Mode button can still be pressed.
C8_Witness ==
    /\ ~isLiveMode
    /\ viewportOffset # Position(0, 0)
    /\ gestures < MaxGestures

\* C9: a drag returns to Idle, with no listener left on document, both on
\* pointer-up and when the pointer leaves the svg.
C9_IdleOnUpAndLeave ==
    [][(MouseUp \/ MouseLeave) => drags' = << >>]_vars

\* C10: findNearestBoundaryPoint returns a point p with
\* boundary.x <= p.x <= boundary.x + width and
\* boundary.y <= p.y <= boundary.y + height.
C10_ResultWithinBoundary ==
    (call.fn = "findNearestBoundaryPoint" /\ call.returned) =>
        /\ call.boundary.x * call.result.x.d <= call.result.x.n
        /\ call.result.x.n <= (call.boundary.x + call.boundary.width) * call.result.x.d
        /\ call.boundary.y * call.result.y.d <= call.result.y.n
        /\ call.result.y.n <= (call.boundary.y + call.boundary.height) * call.result.y.d

\* The target lies outside the boundary, up and to the right of it, and the
\* call returned a point of the boundary's edge that is not a corner.
C10_Witness ==
    /\ call.fn = "findNearestBoundaryPoint" /\ call.returned
    /\ call.point.x > call.boundary.x + call.boundary.width
    /\ call.point.y < call.boundary.y
    /\ call.result.y = Rat(call.boundary.y, 1)
    /\ call.boundary.x * call.result.x.d < call.result.x.n
    /\ call.result.x.n < (call.boundary.x + call.boundary.width) * call.result.x.d

\* The returned point of a call, relative to the centre and scaled by the
\* (positive) denominators: twice (p - centre) times p.x.d * p.y.d.
FromCentre(c) ==
    [x |-> (2 * c.result.x.n - (2 * c.boundary.x + c.boundary.width) * c.result.x.d)
              * c.result.y.d,
     y |-> (2 * c.result.y.n - (2 * c.boundary.y + c.boundary.height) * c.result.y.d)
              * c.result.x.d]

\* Twice the vector from the centre of the boundary to the target.
ToTarget(c) ==
    [x |-> 2 * c.point.x - (2 * c.boundary.x + c.boundary.width),
     y |-> 2 * c.point.y - (2 * c.boundary.y + c.boundary.height)]

\* The returned point lies on one of the four sides of the rectangle.
OnPerimeter(c) ==
    /\ OnBoundary(c.boundary, c.result)
    /\ \/ c.result.x.n = c.boundary.x * c.result.x.d
       \/ c.result.x.n = (c.boundary.x + c.boundary.width) * c.result.x.d
       \/ c.result.y.n = c.boundary.y * c.result.y.d
       \/ c.result.y.n = (c.boundary.y + c.boundary.height) * c.result.y.d

\* C11: for a target different from the centre, findNearestBoundaryPoint
\* returns a point of the rectangle's perimeter that lies on the ray from the
\* centre toward the target; the centre is returned only when no side
\* intersection passes the on-boundary test.
C11_PerimeterPointOnRay ==
    (call.fn = "findNearestBoundaryPoint" /\ call.returned) =>
        /\ ToTarget(call) # Position(0, 0) =>
              /\ OnPerimeter(call)
              /\ FromCentre(call).x * ToTarget(call).y = FromCentre(call).y * ToTarget(call).x
              /\ FromCentre(call).x * ToTarget(call).x
                    + FromCentre(call).y * ToTarget(call).y > 0
        /\ FromCentre(call) = Position(0, 0) =>
              \A k \in DOMAIN Intersections(call.boundary, call.point) :
                  ~OnBoundary(call.boundary, Intersections(call.boundary, call.point)[k])

\* The target lies down and to the left of a box that is not a square, off
\* both axes and off the diagonal, and the call returned a point of the left
\* side.
C11_Witness ==
    /\ call.fn = "findNearestBoundaryPoint" /\ call.returned
    /\ call.boundary.width # call.boundary.height
    /\ ToTarget(call).x < 0 /\ ToTarget(call).y > 0
    /\ call.result.x = Rat(call.boundary.x, 1)
    /\ call.boundary.y * call.result.y.d < call.result.y.n
    /\ call.result.y.n < (call.boundary.y + call.boundary.height) * call.result.y.d
    /\ 2 * call.result.y.n # (2 * call.boundary.y + call.boundary.height) * call.result.y.d

\* C12: for an empty node list and a viewport of size (w, h) the content
\* bounds are minX = 0, minY = 0, maxX = w, maxY = h, width = w, height = h
\* (the model keeps the bounds in half pixels).
C12_EmptyBoundsAreViewport ==
    (call.fn = "calculateContentBounds" /\ call.returned /\ call.nodes = << >>) =>
        call.result = [minX |-> 0, minY |-> 0,
                       maxX |-> 2 * call.svgSize.width, maxY |-> 2 * call.svgSize.height,
                       width |-> 2 * call.svgSize.width, height |-> 2 * call.svgSize.height]

\* The bounds of an empty list were computed for a viewport that is not empty.
C12_Witness ==
    /\ call.fn = "calculateContentBounds" /\ call.returned
    /\ call.nodes = << >>
    /\ call.svgSize.width > 0 /\ call.svgSize.height > 0
    /\ call.result.maxX = 2 * call.svgSize.width

\* The extent of every node and signal of ns, in half pixels: twice its
\* position and its estimated text width and height.
Extents(ns) ==
    {[x |-> 2 * n.x, y |-> 2 * n.y, w |-> Len(n.text) * nodeCharWidth, h |-> nodeTextHeight] :
        n \in Range(ns)} \cup
    {[x |-> 2 * g.x, y |-> 2 * g.y, w |-> Len(g.text) * signalCharWidth, h |-> signalTextHeight] :
        g \in Range(AllSignals(ns))}

\* C13: for a non-empty node list minX is the minimum over all nodes and
\* signals of x - estWidth/2 - 50, maxX the maximum of x + estWidth/2 + 50,
\* minY/maxY likewise with the estimated heights; width = maxX - minX and
\* height = maxY - minY; every element position lies at least 50 inside the
\* box on every side.
C13_BoundsCoverContent ==
    (call.fn = "calculateContentBounds" /\ call.returned /\ call.nodes # << >>) =>
        LET b == call.result
            E == Extents(call.nodes)
        IN  /\ \A e \in E : /\ b.minX <= e.x - e.w - 2 * padding
                            /\ b.maxX >= e.x + e.w + 2 * padding
                            /\ b.minY <= e.y - e.h - 2 * padding
                            /\ b.maxY >= e.y + e.h + 2 * padding
            /\ \E e \in E : b.minX = e.x - e.w - 2 * padding
            /\ \E e \in E : b.maxX = e.x + e.w + 2 * padding
            /\ \E e \in E : b.minY = e.y - e.h - 2 * padding
            /\ \E e \in E : b.maxY = e.y + e.h + 2 * padding
            /\ b.width = b.maxX - b.minX
            /\ b.height = b.maxY - b.minY
            /\ \A e \in E : /\ b.minX + 2 * padding <= e.x /\ e.x <= b.maxX - 2 * padding
                            /\ b.minY + 2 * padding <= e.y /\ e.y <= b.maxY - 2 * padding

\* The left edge of the box is set by a signal and the right edge by a node:
\* the signal lies left of every node's padded text.
C13_Witness ==
    /\ call.fn = "calculateContentBounds" /\ call.returned
    /\ Len(call.nodes) = 2
    /\ \E g \in Range(AllSignals(call.nodes)) :
          /\ call.result.minX = 2 * g.x - Len(g.text) * signalCharWidth - 2 * padding
          /\ \A n \in Range(call.nodes) :
                call.result.minX < 2 * n.x - Len(n.text) * nodeCharWidth - 2 * padding
    /\ \E n \in Range(call.nodes) :
          call.result.maxX = 2 * n.x + Len(n.text) * nodeCharWidth + 2 * padding

\* C14: for a text whose estimated width (characters x fontSize x 0.6) is
\* under maxWidth, breakTextIntoLines returns exactly one line, equal to the
\* text.
C14_ShortTextIsOneLine ==
    (/\ call.fn = "breakTextIntoLines" /\ call.returned
     /\ 6 * Len(call.text) * call.fontSize < 10 * call.maxWidth)
        => call.result = << call.text >>

\* A text of several words, with two spaces in a row, fits the width and came
\* back as one line.
C14_Witness ==
    /\ call.fn = "breakTextIntoLines" /\ call.returned
    /\ Len(Split(call.text)) >= 3
    /\ \E i \in 1..Len(call.text) - 1 : call.text[i] = " " /\ call.text[i + 1] = " "
    /\ 6 * Len(call.text) * call.fontSize < 10 * call.maxWidth
    /\ Len(call.result) = 1

\* The words of the lines, in order: each line split at its spaces.
WordsOf(ls) ==
    LET G[k \in 0..Len(ls)] == IF k = 0 THEN << >> ELSE G[k - 1] \o Split(ls[k])
    IN  G[Len(ls)]

\* C15: breakTextIntoLines never splits a word: a one-word input is returned
\* as one line equal to the word, however wide; the lines of any input are
\* made of the whole words of the input, in order; and the result has at
\* least one line, for the empty text too.
C15_WordsStayWhole ==
    (call.fn = "breakTextIntoLines" /\ call.returned) =>
        /\ Len(call.result) >= 1
        /\ Len(Split(call.text)) = 1 => call.result = << call.text >>
        /\ WordsOf(call.result) = Split(call.text)

\* A text was wrapped into several lines of which one is a single word wider
\* than maxWidth.
C15_Witness ==
    /\ call.fn = "breakTextIntoLines" /\ call.returned
    /\ call.maxWidth > 0
    /\ Len(call.result) >= 2
    /\ \E k \in DOMAIN call.result :
          /\ Len(Split(call.result[k])) = 1
          /\ 6 * Len(call.result[k]) * call.fontSize > 10 * call.maxWidth

\* C16: calculateTextBoundary picks the padding profile by the line count
\* alone (1: singleLine, 2: twoLines, 3 or more: threeOrMore) and returns
\* x = alignedX - padding.left, y = alignedY - padding.top,
\* width = textWidth + padding.left + padding.right,
\* height = textHeight + padding.top + padding.bottom, with alignedX the
\* anchor, the anchor less half the text width, or less the text width, for
\* left/center/right, and alignedY likewise for top/middle/bottom.
C16_PaddedRectangle ==
    (call.fn = "calculateTextBoundary" /\ call.returned) =>
        LET d == calculateTextDimensions(call.text, call.options, call.context2d)
            profiles == IF call.boundaryOptions.padding = << >>
                        THEN defaultPadding ELSE call.boundaryOptions.padding[1]
            profile == CASE d.lineCount = 1 -> profiles.singleLine
                         [] d.lineCount = 2 -> profiles.twoLines
                         [] d.lineCount >= 3 -> profiles.threeOrMore
            alignedX2 == CASE call.options.alignment = "left" -> 40 * call.x
                           [] call.options.alignment = "center" -> 40 * call.x - d.width
                           [] call.options.alignment = "right" -> 40 * call.x - 2 * d.width
            alignedY2 == CASE call.options.verticalAlignment = "top" -> 40 * call.y
                           [] call.options.verticalAlignment = "middle" -> 40 * call.y - d.height
                           [] call.options.verticalAlignment = "bottom" ->
                                 40 * call.y - 2 * d.height
        IN  /\ 2 * call.result.x = alignedX2 - 2 * profile.left
            /\ 2 * call.result.y = alignedY2 - 2 * profile.top
            /\ call.result.width = d.width + profile.left + profile.right
            /\ call.result.height = d.height + profile.top + profile.bottom

\* A text that wraps into three lines or more was measured and its boundary,
\* aligned at the center, has the paddings of the threeOrMore default.
C16_Witness ==
    /\ call.fn = "calculateTextBoundary" /\ call.returned
    /\ call.context2d
    /\ call.boundaryOptions.padding = << >>
    /\ call.options.alignment = "center"
    /\ call.options.verticalAlignment = "bottom"
    /\ Len(breakTextIntoLines(call.text, call.options.fontSize, call.options.maxWidth)) >= 3
    /\ call.options.maxWidth # 0
    /\ call.result.height = 3 * call.options.fontSize * 24 + 20 * 1 + 20 * 24

\* The line count calculateTextBoundary picked the signal boundary's padding
\* by, in a call of calculateConnectionPoints.
SignalLineCount(c) == calculateTextDimensions(c.signalText, signalOptions, c.context2d).lineCount

\* start and end are the nearest boundary points of the node boundary toward
\* the signal's anchor and of the signal boundary toward the node's anchor.
EndpointsAreNearestPoints(c) ==
    LET options == [maxWidth |-> 150, padding |-> c.customPadding]
        nodeBoundary == calculateTextBoundary(c.nodeText, c.nodeX, c.nodeY,
                            TextOptions(16, "center", "middle", 0), options, c.context2d)
        signalBoundary == calculateTextBoundary(c.signalText, c.signalX, c.signalY,
                            TextOptions(12, "center", "middle", 150), options, c.context2d)
    IN  /\ c.result.start =
              NearestBoundaryPoint(nodeBoundary, Position(20 * c.signalX, 20 * c.signalY))
        /\ c.result.end =
              NearestBoundaryPoint(signalBoundary, Position(20 * c.nodeX, 20 * c.nodeY))

\* C18: calculateConnectionPoints returns start = findNearestBoundaryPoint(node
\* boundary, signal anchor) and end = findNearestBoundaryPoint(signal
\* boundary, node anchor), the node boundary built from the unwrapped node
\* text and the signal boundary from the signal text wrapped at the fixed
\* max width; signalLines has as many lines as the line count that picked the
\* signal boundary's padding.
C18_EndpointsAndLines ==
    (call.fn = "calculateConnectionPoints" /\ call.returned) =>
        /\ EndpointsAreNearestPoints(call)
        /\ Len(call.result.signalLines) = SignalLineCount(call)

C19_UniqueIds ==
    /\ \A i, j \in DOMAIN nodes : nodes[i].id = nodes[j].id => i = j
    /\ LET signals == Pairs(nodes)
       IN  \A i, j \in DOMAIN signals : signals[i].signal.id = signals[j].signal.id => i = j

\* updateLine(nodeId, signalId) of a render whose nodes were ns recomputes the
\* connector: both elements of the connector exist, both registry entries
\* exist, and the render knows the node and the signal.
Recomputes(ns, nodeId, signalId, st) ==
    /\ <<nodeId, signalId>> \in DOMAIN st.l
    /\ nodeId \in DOMAIN st.n
    /\ signalId \in DOMAIN st.s
    /\ Find(ns, nodeId) # << >>
    /\ Find(Find(ns, nodeId)[1].signals, signalId) # << >>

\* The shared objects as listener k finds them during a mousemove at p: the
\* listeners registered before it have run.
BeforeListener(k, p) ==
    MoveAll(SubSeq(drags, 1, k - 1), p, [nodes |-> nodes, refs |-> Cur]).refs

\* Listener k of a mousemove at p leaves every connector it recomputes at the
\* position it has just written for its element.
MoveRecomputesFromNewPosition(k, p) ==
    LET d == drags[k]
        newPos == Position(d.initialX + (p.x - d.startX), d.initialY + (p.y - d.startY))
        after == MovedRefs(d, p, BeforeListener(k, p))
    IN  IF d.type = "node"
        THEN /\ after.n[d.id] = newPos
             /\ Find(d.nodes, d.id) # << >> =>
                    \A g \in Range(Find(d.nodes, d.id)[1].signals) :
                        Recomputes(d.nodes, d.id, g.id, after) =>
                            /\ after.l[<<d.id, g.id>>].nodeX = newPos.x
                            /\ after.l[<<d.id, g.id>>].nodeY = newPos.y
        ELSE /\ after.s[d.id] = newPos
             /\ Recomputes(d.nodes, d.parentId, d.id, after) =>
                    /\ after.l[<<d.parentId, d.id>>].signalX = newPos.x
                    /\ after.l[<<d.parentId, d.id>>].signalY = newPos.y

\* After the onUpdate of the tween of node n of timeline t, every connector
\* the callback recomputed carries the entry the callback wrote for n.
NodeTickRecomputesFromNewPosition(t, n) ==
    \A g \in Range(n.signals) :
        Recomputes(t.nodes, n.id, g.id, Refs(nodeRefsMap', signalRefsMap', lines', animationsRef')) =>
            /\ lines'[<<n.id, g.id>>].nodeX = nodeRefsMap'[n.id].x
            /\ lines'[<<n.id, g.id>>].nodeY = nodeRefsMap'[n.id].y

\* The same for the onUpdate of the tween of signal q.signal of node q.node.
SignalTickRecomputesFromNewPosition(t, q) ==
    Recomputes(t.nodes, q.node.id, q.signal.id,
               Refs(nodeRefsMap', signalRefsMap', lines', animationsRef')) =>
        /\ lines'[<<q.node.id, q.signal.id>>].signalX = signalRefsMap'[q.signal.id].x
        /\ lines'[<<q.node.id, q.signal.id>>].signalY = signalRefsMap'[q.signal.id].y

\* C20: within one drag pointer-move and within one animation tick the
\* registry write for the moved element precedes every connector
\* recomputation of the step: each connector the step recomputes is computed
\* from the moved element's new position.
C20_WriteBeforeRecompute ==
    [][/\ \A p \in Pointers : MouseMove(p) =>
              \A k \in DOMAIN drags : MoveRecomputesFromNewPosition(k, p)
       /\ \A i \in DOMAIN animationsRef : \A o \in Offsets :
              /\ \A n \in Range(animationsRef[i].nodes) :
                     NodeTick(animationsRef[i], n, o) =>
                         /\ nodeRefsMap'[n.id] = Position(OrInitial(n.x + o.x, n.x),
                                                          OrInitial(n.y + o.y, n.y))
                         /\ NodeTickRecomputesFromNewPosition(animationsRef[i], n)
              /\ \A q \in Range(Pairs(animationsRef[i].nodes)) :
                     SignalTick(animationsRef[i], q, o) =>
                         SignalTickRecomputesFromNewPosition(animationsRef[i], q)]_vars

\* A listener of a node that was dragged away is still registered, live mode
\* is on, and a tick has carried a node away from its declarative position
\* with its connector following the registry.
C20_Witness ==
    /\ isLiveMode
    /\ \E k \in DOMAIN drags :
          /\ drags[k].type = "node"
          /\ Dragged(nodes, drags[k]) # << >>
          /\ Dragged(nodes, drags[k]) # << Position(drags[k].initialX, drags[k].initialY) >>
    /\ \E q \in Range(Pairs(nodes)) :
          /\ q.node.id \in DOMAIN nodeRefsMap
          /\ nodeRefsMap[q.node.id] # Position(q.node.x, q.node.y)
          /\ <<q.node.id, q.signal.id>> \in DOMAIN lines
          /\ lines[<<q.node.id, q.signal.id>>].nodeX = nodeRefsMap[q.node.id].x
          /\ lines[<<q.node.id, q.signal.id>>].nodeY = nodeRefsMap[q.node.id].y

\* C21: on every animation tick of a node or signal the value written into
\* the registry for that element is its current interpolated position, also
\* when the x or the y of that position is exactly 0.
C21_TickWritesCurrentPosition ==
    [][\A i \in DOMAIN animationsRef : \A o \in Offsets :
          /\ \A n \in Range(animationsRef[i].nodes) :
                 NodeTick(animationsRef[i], n, o) =>
                     nodeRefsMap'[n.id] = Position(n.x + o.x, n.y + o.y)
          /\ \A q \in Range(Pairs(animationsRef[i].nodes)) :
                 SignalTick(animationsRef[i], q, o) =>
                     signalRefsMap'[q.signal.id] =
                         Position(q.signal.x + o.x, q.signal.y + o.y)]_vars

\* The position a recomputation has to take for the endpoint id: the
\* registry entry when there is one, the declarative position otherwise.
EntryOrDeclared(m, id, declared) ==
    IF id \in DOMAIN m THEN m[id] ELSE Position(declared.x, declared.y)

\* C22: when a connector is recomputed and the registry has no entry for one
\* of its endpoints, the declarative position of that endpoint is used and
\* the connector is still recomputed; the declarative position is used only
\* on a miss, never when the registry holds an entry (an entry with a
\* coordinate equal to 0 included).
C22_MissFallsBack ==
    (/\ call.fn \in {"updateLine", "onUpdate"} /\ call.returned
     /\ <<call.nodeId, call.signalId>> \in DOMAIN call.st.l
     /\ call.nodeId = 1 /\ call.signalId = 1) =>
        LET node == call.nodes[1]
            signal == node.signals[1]
            nodeAt == EntryOrDeclared(call.result.n, 1, node)
            signalAt == EntryOrDeclared(call.result.s, 1, signal)
        IN  call.result.l[<<1, 1>>] =
                calculateConnectionPoints(node.text, nodeAt.x, nodeAt.y,
                                          signal.text, signalAt.x, signalAt.y)

\* C23: a registry write made by a drag pointer-move never causes a full
\* reseed of the registry: after a pointer-move with a drag in progress the
\* registry is what the move's handlers wrote into it, not a map cleared and
\* rebuilt from the declarative model.
C23_NoReseedDuringDrag ==
    [][\A p \in Pointers : (MouseMove(p) /\ drags # << >>) =>
          LET written == MoveAll(drags, p, [nodes |-> nodes, refs |-> Cur]).refs
          IN  /\ nodeRefsMap' = written.n
              /\ signalRefsMap' = written.s]_vars

\* C24: in edit mode, after every drag pointer-move and at drag end, the
\* registry entry of every node and signal equals its declarative position,
\* whatever the interleaving of moves and model-change effects.
C24_RegistryFollowsDrag ==
    [][/\ \A p \in Pointers : (MouseMove(p) /\ drags # << >> /\ ~isLiveMode) =>
              RegistryIsDeclarative(nodes', nodeRefsMap', signalRefsMap')
       /\ (MouseUp /\ drags # << >> /\ ~isLiveMode) =>
              RegistryIsDeclarative(nodes', nodeRefsMap', signalRefsMap')]_vars

\* C25: animation ticks never change the declarative model: a tick changes
\* registry entries and rendered connectors only, so the declarative (x, y)
\* of every node and signal stays what it was when live mode was entered.
C25_TicksLeaveModel ==
    [][AnimationTick =>
          /\ nodes' = nodes
          /\ UNCHANGED <<isLiveMode, animationsRef, viewportOffset, contentBounds, svgSize,
                         drags, contextMenu, isDraggingViewport, dragStart>>]_vars

\* Live mode is on over the initial model, and ticks have carried a node, a
\* signal and their connector away from the declarative positions.
C25_Witness ==
    /\ isLiveMode
    /\ nodes = initialNodesData
    /\ nodeRefsMap[1] # Position(nodes[1].x, nodes[1].y)
    /\ signalRefsMap[1] # Position(nodes[1].signals[1].x, nodes[1].signals[1].y)
    /\ lines[<<1, 1>>] # ConnectionLine(Pairs(nodes)[1])

\* The model ns holds no node nodeId, or its node nodeId owns no signal
\* signalId.
NotInModel(ns, nodeId, signalId) ==
    \/ Find(ns, nodeId) = << >>
    \/ Find(Find(ns, nodeId)[1].signals, signalId) = << >>

\* C26: operations that name an element missing from the model are no-ops:
\* updateLine for a node id not in the model or a signal that node does not
\* own leaves every connector unchanged; addSignal for a parent id not in the
\* model leaves the model and the registry unchanged; a drag start on a
\* signal whose parent is not in the model (or on any other missing element)
\* registers no drag, and pointer moves with no drag registered change
\* nothing.
C26_MissingElementNoOp ==
    [][/\ \A nodeId, signalId \in LineIds :
              (CallUpdateLineOn(nodeId, signalId) /\ NotInModel(nodes, nodeId, signalId)) =>
                  call'.result = call'.st
       /\ (addSignal /\ Find(nodes, contextMenu.id) = << >>) =>
              UNCHANGED <<nodes, nodeRefsMap, signalRefsMap, lines, animationsRef>>
       /\ \A p \in Pointers : \A e \in MissingElements :
              MissingDragStart(p, e) =>
                  UNCHANGED <<drags, nodes, nodeRefsMap, signalRefsMap, lines>>
       /\ \A p \in Pointers : (MouseMove(p) /\ drags = << >>) =>
              UNCHANGED <<nodes, nodeRefsMap, signalRefsMap, lines>>]_vars

\* updateLine was called for a node that is in no model while line-9-1 is in
\* the document, after an import replaced the model, and no drag is held.
C26_Witness ==
    /\ call.fn = "updateLine"
    /\ call.nodeId = 9 /\ call.signalId = 1
    /\ <<9, 1>> \in DOMAIN call.st.l
    /\ call.result.l = call.st.l
    /\ nodes # initialNodesData
    /\ Len(nodes) = 1
    /\ drags = << >>

\* The elements that have a drag listener pair on document.
DraggedElements == {<<d.type, d.id, d.parentId>> : d \in Range(drags)}

\* C27: once a drag gesture has ended with pointer-up no drag listener
\* remains, and a later pointer-move with no pointer-down on an element in
\* between changes no registry entry and no declarative position; and at
\* most one element is being dragged at any time.
C27_OneDragEndsOnUp ==
    /\ [](Cardinality(DraggedElements) <= 1)
    /\ [][/\ MouseUp => drags' = << >>
           /\ \A p \in Pointers : (MouseMove(p) /\ drags = << >>) =>
                  UNCHANGED <<nodes, nodeRefsMap, signalRefsMap>>]_vars

\* C28: the viewport offset stays (0, 0) for as long as live mode is active:
\* no pointer event on the canvas, no JSON import with its fit-to-viewport
\* step and no pan that was in progress when live mode was entered changes it
\* before live mode is exited.
C28_OffsetZeroInLiveMode ==
    isLiveMode => viewportOffset = Position(0, 0)

\* C29: the stored content bounds are never stale with respect to the
\* viewport size: whenever the node list is empty, whatever resizes have
\* happened, the stored bounds are {0, 0, W, H, W, H} for the current viewport
\* size (W, H).
C29_EmptyBoundsFollowSize ==
    nodes = << >> =>
        contentBounds = BoundingBox(0, 0, 2 * svgSize.width, 2 * svgSize.height)

\* lines.join(' '): the lines in order with one space between neighbours.
JoinWithSpace(ls) ==
    LET G[k \in 1..Len(ls)] ==
            IF k = 1 THEN ls[1] ELSE G[k - 1] \o << " " >> \o ls[k]
    IN  IF ls = << >> THEN << >> ELSE G[Len(ls)]

\* C30: breakTextIntoLines loses and reorders nothing: for every text, font
\* size and maxWidth, the returned lines joined with a single space are
\* exactly the input text, and every returned line that holds more than one
\* word has an estimated width strictly under maxWidth.
C30_JoinGivesTextBack ==
    (call.fn = "breakTextIntoLines" /\ call.returned) =>
        /\ JoinWithSpace(call.result) = call.text
        /\ \A k \in DOMAIN call.result :
               Len(Split(call.result[k])) > 1 =>
                   estimateTextWidthUnder(call.result[k], call.fontSize, call.maxWidth)

\* A text with two spaces in a row was wrapped into several lines, one of
\* which holds more than one word.
C30_Witness ==
    /\ call.fn = "breakTextIntoLines" /\ call.returned
    /\ \E i \in 1..Len(call.text) - 1 : call.text[i] = " " /\ call.text[i + 1] = " "
    /\ Len(call.result) >= 2
    /\ \E k \in DOMAIN call.result : Len(Split(call.result[k])) > 1
====
